---- MODULE Spec2Model ----
(***************************************************************************)
(* Job store, ingestion pipeline, crawl locks and watchdog of the          *)
(* RAG_Extraction service (src/rag_fastapi/app).                           *)
(*                                                                         *)
(* Time is the wall clock in seconds.  The store is the Redis keyspace     *)
(* ingestion_job:<id>; every process works on its own deserialised copy    *)
(* of a record and writes the whole record back with one SET.              *)
(***************************************************************************)
EXTENDS Integers, Sequences, FiniteSets, TLC

\* ---------------------------------------------------------------- bounds
MaxTicks == 3

CrawlMaxPages == 3
CrawlMaxDepth == 2

MaxCalls == 2
MaxRetrieved == 3
MaxText == 5
MaxChunkSize == 2
MaxChunkOverlap == 2

\* ------------------------------------------------------ program constants
FAISS_BATCH_SIZE == 1000
RETRIEVER_TOP_K == 5
MAX_PAGES_LIMIT == 1000
MAX_DEPTH_LIMIT == 5
LOCK_TTL_MS == 300000
CRAWLER_MAX_RETRIES == 3
WATCHDOG_THRESHOLD_SECONDS == 600
CELERY_SOFT_TIME_LIMIT == 600

\* The clock advances in steps of one lock TTL (300 s): the coarsest step
\* that separates the lock TTL from the two 600 s limits.
ClockStep == LOCK_TTL_MS \div 1000
MaxTime == MaxTicks * ClockStep

JobIds == {1, 2}
Urls == {"u1", "u2"}
SeedLists == {<<"u1">>, <<"u1", "u2">>}
MaxPagesChoices == {1, 2}
ChunkCounts == {0, 2}

\* The pages of the crawled site; LinkGraphs gives, for each page, the links
\* _get_all_links returns for it (never the page itself).
Pages == {"a", "b", "c"}
LinkGraphs == {g \in [Pages -> SUBSET Pages] : \A u \in Pages : u \notin g[u]}
CrawlSeeds == {<<"a">>, <<"a", "a">>, <<"a", "b">>}
FetchOutcomes == {"html", "empty", "error"}
RetryChoices == {0, CRAWLER_MAX_RETRIES}

\* The chunk lists handed to add_documents: chunk_id and embedding of each
\* chunk (one or two coordinates, or none), here without the owner.
ChunkLists ==
    {<<>>,
     <<[chunk_id |-> "c1", embedding |-> <<0>>], [chunk_id |-> "c2", embedding |-> <<2>>]>>,
     <<[chunk_id |-> "c3", embedding |-> <<3>>]>>,
     <<[chunk_id |-> "c3", embedding |-> <<1, 1>>]>>,
     <<[chunk_id |-> "c1", embedding |-> <<0>>], [chunk_id |-> "c2", embedding |-> <<1, 1>>]>>,
     <<[chunk_id |-> "c1", embedding |-> <<>>]>>}
Queries == {<<1>>, <<1, 1>>}
KChoices == {1, RETRIEVER_TOP_K}

Terminal == {"completed", "failed"}
Statuses == {"pending", "crawling", "processing", "embedding", "indexing"} \cup Terminal

VARIABLES
    now,            \* datetime.utcnow(), seconds
    store,          \* Redis: job_id -> persisted IngestionJob
    queue,          \* Celery broker: ingestion tasks enqueued, not yet started
    request,        \* job_id -> the IngestRequest the task was enqueued with
    locks,          \* Redis: url -> <<>> or <<acquired_at, job_id>> (crawl_lock:<url>)
    pc,             \* job_id -> position of its ingestion task
    job,            \* job_id -> the task's local IngestionJob object
    local,          \* job_id -> the task's other locals
    exc,            \* job_id -> last exception raised in the task: <<kind, where>>
    persisted,      \* job_id -> statuses persisted for the job, in order of the writes
    wd_pc,          \* watchdog_task position
    wd_stuck,       \* watchdog_task: stuck_jobs still to process (record copies)
    wd_sweep,       \* watchdog_task: <<job_id, persisted?>> of the candidates processed in this sweep
    wd_found,       \* watchdog_task: job ids returned by the scan of this sweep
    stuck_listing,  \* last response of GET /health/jobs: status code and job ids
    index,          \* VectorStore: job_id -> vectors resident in memory and vectors saved to disk
    cr,             \* one WebCrawler.crawl call: its arguments, locals and position
    api,            \* last response of POST /ingest, GET /status/{job_id} and POST /ask
    vs,             \* VectorStore of one process: resident state, files on disk, call position
    ct              \* one chunk_text call: its arguments, locals and position

vars == <<now, store, queue, request, locks, pc, job, local, exc, persisted,
          wd_pc, wd_stuck, wd_sweep, wd_found, stuck_listing, index, cr, api, vs, ct>>

\* ---------------------------------------------------------------- helpers
None == <<>>
Some(x) == <<x>>

IsPrefix(s, t) == Len(s) <= Len(t) /\ SubSeq(t, 1, Len(s)) = s
Last(s) == s[Len(s)]
Range(s) == {s[i] : i \in 1..Len(s)}

\* An error string: the literal part of the f-string and its interpolated part.
Msg(text, arg) == <<text, arg>>

\* models/job.py: IngestionJob(job_id=..., status="pending") with its defaults.
IngestionJob_LateStart(id, t) ==
    [job_id |-> id, status |-> "pending", started_at |-> t + 1, completed_at |-> None,
     pages_fetched |-> 0, pages_indexed |-> 0, total_chunks_indexed |-> 0,
     errors |-> <<>>, last_heartbeat |-> t]
IngestionJob(id, t) ==
    [job_id |-> id, status |-> "pending", started_at |-> t, completed_at |-> None,
     pages_fetched |-> 0, pages_indexed |-> 0, total_chunks_indexed |-> 0,
     errors |-> <<>>, last_heartbeat |-> t]

NoLocals == [seed_idx |-> 1, crawl_urls |-> <<>>, docs |-> 0, chunks |-> 0,
             embeddings |-> "none", task_started |-> 0]
NoJob == IngestionJob(0, 0)
NoExc == <<"none", "none">>
NoResponse == [code |-> 0, jobs |-> {}]
NoIndex == [resident |-> 0, saved |-> 0]
NoCrawl == [pc |-> "none"]
NoApi == [ingest |-> [code |-> 0], status |-> [code |-> 0], ask |-> [code |-> 0]]
NoVectorStore == [pc |-> "none"]
NoChunking == [pc |-> "none"]

\* ------------------------------------------------------------- job store
\* RedisJobService.update_job / create_job: the record that is serialised,
\* with last_heartbeat set to utcnow() just before the SET.
UpdateJob_NoHeartbeat(j, t) == j
UpdateJob(j, t) == [j EXCEPT !.last_heartbeat = t]

\* The SET of the serialised record under ingestion_job:<job_id>.
RedisSet(st, j) == (j.job_id :> j) @@ st

\* The order-of-writes log of persisted statuses (consecutive repeats once).
Logged(log, id, status) ==
    IF Len(log[id]) > 0 /\ Last(log[id]) = status THEN log
    ELSE [log EXCEPT ![id] = Append(@, status)]

\* RedisJobService.scan_stuck_jobs, lines 133-134: the test applied to each record.
IsStuck_Inclusive(j, t, threshold) ==
    j.status \notin {"completed", "failed"} /\ (t - j.last_heartbeat) >= threshold
IsStuck(j, t, threshold) ==
    j.status \notin {"completed", "failed"} /\ (t - j.last_heartbeat) > threshold

RECURSIVE ScanLoop_StopAtFirst(_, _, _, _)
ScanLoop_StopAtFirst(st, keys, t, threshold) ==
    IF keys = <<>> THEN <<>>
    ELSE LET j == st[Head(keys)]
         IN IF IsStuck(j, t, threshold) THEN <<j>>
            ELSE ScanLoop_StopAtFirst(st, Tail(keys), t, threshold)

\* RedisJobService.scan_stuck_jobs, as its loop over the keys in scan order.
RECURSIVE ScanLoop(_, _, _, _)
ScanLoop(st, keys, t, threshold) ==
    IF keys = <<>> THEN <<>>
    ELSE LET j == st[Head(keys)]
             rest == ScanLoop(st, Tail(keys), t, threshold)
         IN IF IsStuck(j, t, threshold) THEN <<j>> \o rest ELSE rest

\* scan_iter returns the keys in an unspecified order.
KeyOrders(st) ==
    {s \in [1..Cardinality(DOMAIN st) -> DOMAIN st] : Range(s) = DOMAIN st}

\* The service after start: no job, no lock, an empty vector store.
ServiceInit ==
    /\ now = 0
    /\ store = <<>>
    /\ queue = {}
    /\ request = [id \in JobIds |-> [seed_urls |-> <<>>, max_pages |-> 1]]
    /\ locks = [u \in Urls |-> None]
    /\ pc = [id \in JobIds |-> "none"]
    /\ job = [id \in JobIds |-> NoJob]
    /\ local = [id \in JobIds |-> NoLocals]
    /\ exc = [id \in JobIds |-> NoExc]
    /\ persisted = [id \in JobIds |-> <<>>]
    /\ wd_pc = "idle"
    /\ wd_stuck = <<>>
    /\ wd_sweep = <<>>
    /\ wd_found = {}
    /\ stuck_listing = NoResponse
    /\ index = [id \in JobIds |-> NoIndex]

Init == ServiceInit /\ cr = NoCrawl /\ api = NoApi /\ vs = NoVectorStore /\ ct = NoChunking

\* The wall clock; Redis drops a lock key once its TTL has run out.
LockLive(l, t) == l # None /\ (t - l[1]) * 1000 < LOCK_TTL_MS
Tick ==
    /\ now < MaxTime
    /\ now' = now + ClockStep
    /\ locks' = [u \in Urls |-> IF LockLive(locks[u], now') THEN locks[u] ELSE None]
    /\ UNCHANGED <<ct, api, vs, index, cr, store, queue, request, pc, job, local, exc, persisted,
                   wd_pc, wd_stuck, wd_sweep, wd_found, stuck_listing>>

\* ------------------------------------------------------------ POST /ingest
\* uuid4() yields an id no job has: the ids are handed out in order.
FreshId(id) == pc[id] = "none" /\ \A o \in JobIds : (pc[o] = "none" => id <= o)

EnqueueFailedMsg == Msg("Failed to enqueue Celery task: ", "broker error")

\* routers/ingest.py lines 43-47: what the handler does to the job when delay() raises.
EnqueueFailed_NoError(j) == [j EXCEPT !.status = "failed"]
EnqueueFailed(j) == [j EXCEPT !.status = "failed", !.errors = Append(@, EnqueueFailedMsg)]

\* routers/ingest.py ingest_content: create_job, then ingestion_task.delay; when
\* delay raises, the job is marked failed, updated and the request answers 500
\* (an exception of that update leaves the pending record).  A create_job that
\* raises persists nothing and enqueues nothing: it leaves the state as it is.
ingest_content(id) ==
    /\ FreshId(id)
    /\ \E seeds \in SeedLists, mp \in MaxPagesChoices, enqueued \in BOOLEAN, updated \in BOOLEAN :
         LET created == UpdateJob(IngestionJob(id, now), now)
             failed == UpdateJob(EnqueueFailed(created), now)
         IN /\ request' = [request EXCEPT ![id] = [seed_urls |-> seeds, max_pages |-> mp]]
            /\ IF enqueued
               THEN /\ updated
                    /\ store' = RedisSet(store, created)
                    /\ persisted' = Logged(persisted, id, "pending")
                    /\ queue' = queue \cup {id}
                    /\ pc' = [pc EXCEPT ![id] = "queued"]
               ELSE /\ store' = RedisSet(store, IF updated THEN failed ELSE created)
                    /\ persisted' = IF updated
                                    THEN Logged(Logged(persisted, id, "pending"), id, "failed")
                                    ELSE Logged(persisted, id, "pending")
                    /\ queue' = queue
                    /\ pc' = [pc EXCEPT ![id] = "rejected"]
    /\ UNCHANGED <<ct, api, vs, index, cr, now, locks, job, local, exc, wd_pc, wd_stuck, wd_sweep, wd_found, stuck_listing>>

\* The request bodies of POST /ingest: seed URLs ("ftp1" is not an http(s) URL),
\* domain allowlist, max_pages and max_depth.
RawSeedLists == {<<>>, <<"u1">>, <<"ftp1">>, <<"u1", "u2">>}
RawRequests ==
    [seed_urls : RawSeedLists, domain_allowlist : {<<>>, <<"d1">>},
     max_pages : {0, MAX_PAGES_LIMIT, MAX_PAGES_LIMIT + 1},
     max_depth : {-1, MAX_DEPTH_LIMIT, MAX_DEPTH_LIMIT + 1}]

\* pydantic HttpUrl: the scheme is http or https.
IsHttpUrl(url) == url \in Urls

\* models/schemas.py IngestRequest: what FastAPI validates before the handler
\* is called (seed_urls a list of HttpUrl, max_pages > 0, max_depth >= 0).
SchemaValid(r) ==
    /\ \A i \in 1..Len(r.seed_urls) : IsHttpUrl(r.seed_urls[i])
    /\ r.max_pages > 0
    /\ r.max_depth >= 0

\* RedisJobService.create_job: the SET of the new record.
CreateJob_Deferred(st, j) == st
CreateJob(st, j) == RedisSet(st, j)

\* routers/ingest.py lines 14-36: the request is validated against the schema
\* (422 when invalid), the job is built and create_job stores it (its exception
\* answers 500 and stores nothing).
I_Receive(id) ==
    /\ FreshId(id)
    /\ \E raw \in RawRequests, created \in BOOLEAN :
         IF ~SchemaValid(raw)
         THEN /\ api' = [api EXCEPT !.ingest = [code |-> 422]]
              /\ UNCHANGED <<store, persisted, request, pc>>
         ELSE IF ~created
         THEN /\ api' = [api EXCEPT !.ingest = [code |-> 500]]
              /\ UNCHANGED <<store, persisted, request, pc>>
         ELSE /\ store' = CreateJob(store, UpdateJob(IngestionJob(id, now), now))
              /\ persisted' = Logged(persisted, id, "pending")
              /\ request' = [request EXCEPT ![id] = raw]
              /\ pc' = [pc EXCEPT ![id] = "created"]
              /\ api' = [api EXCEPT !.ingest = [code |-> 0]]
    /\ UNCHANGED <<ct, vs, index, cr, now, queue, locks, job, local, exc,
                   wd_pc, wd_stuck, wd_sweep, wd_found, stuck_listing>>

\* routers/ingest.py lines 39-58: ingestion_task.delay, then 202 with the job
\* id; when delay raises the job is marked failed and updated, and the answer is 500.
I_Enqueue(id) ==
    /\ pc[id] = "created"
    /\ \E enqueued \in BOOLEAN, updated \in BOOLEAN :
         IF enqueued
         THEN /\ updated
              /\ queue' = queue \cup {id}
              /\ pc' = [pc EXCEPT ![id] = "queued"]
              /\ api' = [api EXCEPT !.ingest = [code |-> 202, job_id |-> id]]
              /\ UNCHANGED <<store, persisted>>
         ELSE /\ queue' = queue
              /\ pc' = [pc EXCEPT ![id] = "rejected"]
              /\ api' = [api EXCEPT !.ingest = [code |-> 500]]
              /\ IF updated /\ id \in DOMAIN store
                 THEN /\ store' = RedisSet(store, UpdateJob(EnqueueFailed(store[id]), now))
                      /\ persisted' = Logged(persisted, id, "failed")
                 ELSE UNCHANGED <<store, persisted>>
    /\ UNCHANGED <<ct, vs, index, cr, now, request, locks, job, local, exc,
                   wd_pc, wd_stuck, wd_sweep, wd_found, stuck_listing>>

\* ------------------------------------------------- GET /status/{job_id}
\* routers/status.py get_job_status: 404 when get_job finds no record, else the
\* record (an exception of get_job answers 500).
get_job_status(id) ==
    /\ \E ok \in BOOLEAN :
         api' = [api EXCEPT !.status =
                   IF ~ok THEN [code |-> 500, job_id |-> id]
                   ELSE IF id \in DOMAIN store
                   THEN [code |-> 200, job_id |-> id, status |-> store[id].status]
                   ELSE [code |-> 404, job_id |-> id]]
    /\ UNCHANGED <<ct, vs, index, cr, now, store, queue, request, locks, pc, job, local, exc,
                   persisted, wd_pc, wd_stuck, wd_sweep, wd_found, stuck_listing>>

\* ------------------------------------------------------------ POST /ask
\* routers/ask.py lines 28-39: the tests on the record read at line 26.
AskGate_AnyTerminal(st, id) ==
    IF id \notin DOMAIN st THEN "not_found"
    ELSE IF st[id].status \notin {"completed", "failed"} THEN "conflict"
    ELSE "ok"
AskGate(st, id) ==
    IF id \notin DOMAIN st THEN "not_found"
    ELSE IF st[id].status # "completed" THEN "conflict"
    ELSE "ok"

\* routers/ask.py ask_question: get_job (its exception answers 500), 404 for
\* no record, 409 naming the status unless it is completed, else retrieval and
\* generation (an exception of the generation answers 500).
ask_question(id) ==
    /\ \E read \in BOOLEAN, generated \in BOOLEAN :
         LET gate == AskGate(store, id)
             none == [job_id |-> id, retrieved |-> FALSE, generated |-> FALSE]
         IN api' = [api EXCEPT !.ask =
                      IF ~read THEN [code |-> 500, cause |-> "get_job"] @@ none
                      ELSE IF gate = "not_found" THEN [code |-> 404] @@ none
                      ELSE IF gate = "conflict"
                      THEN [code |-> 409, status |-> store[id].status] @@ none
                      ELSE [code |-> IF generated THEN 200 ELSE 500, job_id |-> id,
                            retrieved |-> TRUE, generated |-> TRUE]]
    /\ UNCHANGED <<ct, vs, index, cr, now, store, queue, request, locks, pc, job, local, exc,
                   persisted, wd_pc, wd_stuck, wd_sweep, wd_found, stuck_listing>>

\* ------------------------------------------------- _run_ingestion_async
\* str(e) of the exceptions the try block sees.
ExcText(kind) ==
    CASE kind = "AllSkipped" -> "All specified URLs were skipped due to existing locks or no URLs to crawl."
      [] kind = "NoDocuments" -> "No documents were fetched."
      [] kind = "EmbeddingFailed" -> "Embedding generation failed."
      [] kind = "SameDimension" -> "All chunks must have embeddings of the same dimension."
      [] kind = "SaveFailed" -> "OSError"
      [] kind = "RedisError" -> "ConnectionError"
      [] OTHER -> kind

SoftLimitMsg == Msg("Ingestion task exceeded soft time limit.", "")
IngestionFailedMsg(kind) == Msg("Ingestion failed: ", ExcText(kind))
NoChunksIndexedMsg == Msg("No chunks were indexed despite documents being available for processing.", "")

\* tasks.py lines 149-160: the two except clauses.
OnException_OneText(j, kind) ==
    [j EXCEPT !.status = "failed", !.errors = Append(@, IngestionFailedMsg(kind)),
              !.pages_indexed = 0, !.total_chunks_indexed = 0]
OnException(j, kind) ==
    IF kind = "SoftTimeLimitExceeded"
    THEN [j EXCEPT !.status = "failed", !.errors = Append(@, SoftLimitMsg),
                   !.pages_indexed = 0, !.total_chunks_indexed = 0]
    ELSE [j EXCEPT !.status = "failed", !.errors = Append(@, IngestionFailedMsg(kind)),
                   !.pages_indexed = 0, !.total_chunks_indexed = 0]

\* The status assigned at each position of the pipeline (lines 62, 69, 107, 117, 131).
PhaseStatus_Swapped(at) ==
    CASE at = "loaded" -> "pending"
      [] at = "try" -> "crawling"
      [] at = "processing" -> "embedding"
      [] at = "chunking" -> "processing"
      [] at = "embed" -> "indexing"
PhaseStatus(at) ==
    CASE at = "loaded" -> "pending"
      [] at = "try" -> "crawling"
      [] at = "processing" -> "processing"
      [] at = "chunking" -> "embedding"
      [] at = "embed" -> "indexing"

TryRegion == {"try", "ping", "locks", "crawl", "processing", "chunking", "embed", "index"}

\* An exception inside the try block: the except clause runs, then finally.
Raise(id, j, kind) ==
    /\ job' = [job EXCEPT ![id] = OnException(j, kind)]
    /\ local' = [local EXCEPT ![id] = NoLocals]
    /\ exc' = [exc EXCEPT ![id] = <<kind, "try">>]
    /\ pc' = [pc EXCEPT ![id] = "finally"]

\* redis_job_service.update_job(job) inside the try block, then on to `to`
\* with the locals `loc`.
TryUpdate(id, j, loc, to) ==
    \E ok \in BOOLEAN :
        LET w == UpdateJob(j, now)
        IN IF ok
           THEN /\ store' = RedisSet(store, w)
                /\ persisted' = Logged(persisted, id, w.status)
                /\ job' = [job EXCEPT ![id] = w]
                /\ exc' = exc
                /\ pc' = [pc EXCEPT ![id] = to]
                /\ local' = [local EXCEPT ![id] = loc]
           ELSE /\ UNCHANGED <<store, persisted>>
                /\ Raise(id, w, "RedisError")

\* ingestion_task starts on a worker; line 56: job = get_job(job_id).
P_Load(id) ==
    /\ id \in queue
    /\ queue' = queue \ {id}
    /\ IF id \in DOMAIN store
       THEN /\ job' = [job EXCEPT ![id] = store[id]]
            /\ pc' = [pc EXCEPT ![id] = "loaded"]
       ELSE /\ job' = job
            /\ pc' = [pc EXCEPT ![id] = "done"]
    /\ local' = [local EXCEPT ![id] = [NoLocals EXCEPT !.task_started = now]]
    /\ UNCHANGED <<ct, api, vs, index, cr, now, store, request, locks, exc, persisted,
                   wd_pc, wd_stuck, wd_sweep, wd_found, stuck_listing>>

\* lines 62-64, before the try block: an exception of update_job is not caught.
P_Pending(id) ==
    /\ pc[id] = "loaded"
    /\ \E ok \in BOOLEAN :
         LET w == UpdateJob([job[id] EXCEPT !.status = PhaseStatus("loaded")], now)
         IN /\ job' = [job EXCEPT ![id] = w]
            /\ IF ok
               THEN /\ store' = RedisSet(store, w)
                    /\ persisted' = Logged(persisted, id, w.status)
                    /\ exc' = exc
                    /\ pc' = [pc EXCEPT ![id] = "try"]
               ELSE /\ UNCHANGED <<store, persisted>>
                    /\ exc' = [exc EXCEPT ![id] = <<"RedisError", "before_try">>]
                    /\ pc' = [pc EXCEPT ![id] = "raised"]
    /\ UNCHANGED <<ct, api, vs, index, cr, now, queue, request, locks, local,
                   wd_pc, wd_stuck, wd_sweep, wd_found, stuck_listing>>

\* lines 69-70.
P_Crawling(id) ==
    /\ pc[id] = "try"
    /\ TryUpdate(id, [job[id] EXCEPT !.status = PhaseStatus("try")], local[id], "ping")
    /\ UNCHANGED <<ct, api, vs, index, cr, now, queue, request, locks,
                   wd_pc, wd_stuck, wd_sweep, wd_found, stuck_listing>>

\* line 74: redis_client.ping() inside the debug message.
P_Ping(id) ==
    /\ pc[id] = "ping"
    /\ \E ok \in BOOLEAN :
         IF ok
         THEN /\ pc' = [pc EXCEPT ![id] = "locks"]
              /\ UNCHANGED <<job, exc, local>>
         ELSE Raise(id, job[id], "RedisError")
    /\ UNCHANGED <<ct, api, vs, index, cr, now, store, queue, request, locks, persisted,
                   wd_pc, wd_stuck, wd_sweep, wd_found, stuck_listing>>

\* line 89: `if not crawl_urls` after the loop over the seed URLs.
AllSkipped_Never(crawl_urls) == FALSE
AllSkipped(crawl_urls) == crawl_urls = <<>>

\* lines 77-90: one pass of the loop over seed_urls, dlm.lock(lock_key, ttl=300000);
\* after the last seed, line 89 raises when no lock was acquired, else the crawl starts.
P_Lock(id) ==
    /\ pc[id] = "locks"
    /\ LET seeds == request[id].seed_urls
           url == seeds[local[id].seed_idx]
           got == ~LockLive(locks[url], now)
           crawl_urls == IF got THEN Append(local[id].crawl_urls, url) ELSE local[id].crawl_urls
           last == local[id].seed_idx = Len(seeds)
       IN /\ locks' = IF got THEN [locks EXCEPT ![url] = <<now, id>>] ELSE locks
          /\ IF last /\ AllSkipped(crawl_urls)
             THEN Raise(id, job[id], "AllSkipped")
             ELSE /\ pc' = [pc EXCEPT ![id] = IF last THEN "crawl" ELSE "locks"]
                  /\ local' = [local EXCEPT ![id].crawl_urls = crawl_urls, ![id].seed_idx = @ + 1]
                  /\ UNCHANGED <<job, exc>>
    /\ UNCHANGED <<ct, api, vs, index, cr, now, store, queue, request, persisted,
                   wd_pc, wd_stuck, wd_sweep, wd_found, stuck_listing>>

\* line 100: `if not crawled_documents`, on the number of documents returned.
NoDocuments_Never(n) == FALSE
NoDocuments(n) == n = 0

\* lines 92-104: crawler.crawl returns its documents (at most max_pages); none
\* raises, else pages_fetched is set and the job updated.
P_Crawl(id) ==
    /\ pc[id] = "crawl"
    /\ \E n \in 0..request[id].max_pages :
         IF NoDocuments(n)
         THEN /\ Raise(id, job[id], "NoDocuments")
              /\ UNCHANGED <<store, persisted>>
         ELSE TryUpdate(id, [job[id] EXCEPT !.pages_fetched = n],
                        [local[id] EXCEPT !.docs = n], "processing")
    /\ UNCHANGED <<ct, api, vs, index, cr, now, queue, request, locks,
                   wd_pc, wd_stuck, wd_sweep, wd_found, stuck_listing>>

\* lines 107-108.
P_Processing(id) ==
    /\ pc[id] = "processing"
    /\ TryUpdate(id, [job[id] EXCEPT !.status = PhaseStatus("processing")], local[id], "chunking")
    /\ UNCHANGED <<ct, api, vs, index, cr, now, queue, request, locks,
                   wd_pc, wd_stuck, wd_sweep, wd_found, stuck_listing>>

\* lines 111-118: process_document over the documents, then status embedding.
P_Chunking(id) ==
    /\ pc[id] = "chunking"
    /\ \E c \in ChunkCounts :
         TryUpdate(id, [job[id] EXCEPT !.status = PhaseStatus("chunking")],
                   [local[id] EXCEPT !.chunks = c], "embed")
    /\ UNCHANGED <<ct, api, vs, index, cr, now, queue, request, locks,
                   wd_pc, wd_stuck, wd_sweep, wd_found, stuck_listing>>

\* What embed_documents can return for a non-empty batch: one vector per text,
\* zero vectors or empty vectors (the providers' failure placeholders), or no list.
EmbedOutcomes == {"vectors", "zero_vectors", "empty_vectors", "no_vectors"}

\* lines 121-132: embed_documents; an empty result raises, else status indexing.
P_Embed(id) ==
    /\ pc[id] = "embed"
    /\ \E e \in EmbedOutcomes :
         /\ (local[id].chunks = 0 => e = "no_vectors")
         /\ IF e = "no_vectors"
            THEN /\ Raise(id, job[id], "EmbeddingFailed")
                 /\ UNCHANGED <<store, persisted>>
            ELSE TryUpdate(id, [job[id] EXCEPT !.status = PhaseStatus("embed")],
                           [local[id] EXCEPT !.embeddings = e], "index")
    /\ UNCHANGED <<ct, api, vs, index, cr, now, queue, request, locks,
                   wd_pc, wd_stuck, wd_sweep, wd_found, stuck_listing>>

\* VectorStore.add_documents for one job: no chunk returns 0; embeddings that
\* are empty or without a common length raise; else the vectors are added to the
\* resident index, _save_index writes the files (or raises) and the number of
\* chunks added is returned.
add_documents_SaveIgnored(idx, chunks, embeddings, saved) ==
    IF chunks = 0
    THEN [raised |-> "none", count |-> 0, index |-> idx]
    ELSE IF embeddings = "empty_vectors"
    THEN [raised |-> "SameDimension", count |-> 0, index |-> idx]
    ELSE LET added == [idx EXCEPT !.resident = @ + chunks]
         IN IF saved
            THEN [raised |-> "none", count |-> chunks,
                  index |-> [added EXCEPT !.saved = added.resident]]
            ELSE [raised |-> "none", count |-> chunks, index |-> added]
add_documents(idx, chunks, embeddings, saved) ==
    IF chunks = 0
    THEN [raised |-> "none", count |-> 0, index |-> idx]
    ELSE IF embeddings = "empty_vectors"
    THEN [raised |-> "SameDimension", count |-> 0, index |-> idx]
    ELSE LET added == [idx EXCEPT !.resident = @ + chunks]
         IN IF saved
            THEN [raised |-> "none", count |-> chunks,
                  index |-> [added EXCEPT !.saved = added.resident]]
            ELSE [raised |-> "SaveFailed", count |-> 0, index |-> added]

\* lines 138-146: the outcome of the run after add_documents has returned.
AfterIndexing_KeepCounters(j, indexed_count, chunks) ==
    IF indexed_count = 0 /\ chunks > 0
    THEN [j EXCEPT !.status = "failed", !.errors = Append(@, NoChunksIndexedMsg)]
    ELSE [j EXCEPT !.status = "completed"]
AfterIndexing_ChunksAsPages(j, indexed_count, chunks) ==
    IF indexed_count = 0 /\ chunks > 0
    THEN [j EXCEPT !.status = "failed", !.errors = Append(@, NoChunksIndexedMsg)]
    ELSE [j EXCEPT !.pages_indexed = indexed_count,
                   !.total_chunks_indexed = indexed_count,
                   !.status = "completed"]
AfterIndexing(j, indexed_count, chunks) ==
    IF indexed_count = 0 /\ chunks > 0
    THEN [j EXCEPT !.status = "failed", !.errors = Append(@, NoChunksIndexedMsg)]
    ELSE [j EXCEPT !.pages_indexed = j.pages_fetched,
                   !.total_chunks_indexed = indexed_count,
                   !.status = "completed"]

\* lines 135-146: add_documents, then failed or completed with the counters.
P_Index(id) ==
    /\ pc[id] = "index"
    /\ \E saved \in BOOLEAN :
         LET r == add_documents(index[id], local[id].chunks, local[id].embeddings, saved)
         IN /\ index' = [index EXCEPT ![id] = r.index]
            /\ IF r.raised # "none"
               THEN Raise(id, job[id], r.raised)
               ELSE /\ job' = [job EXCEPT ![id] = AfterIndexing(job[id], r.count, local[id].chunks)]
                    /\ pc' = [pc EXCEPT ![id] = "finally"]
                    /\ local' = [local EXCEPT ![id] = NoLocals]
                    /\ exc' = exc
    /\ UNCHANGED <<ct, api, vs, cr, now, store, queue, request, locks, persisted,
                   wd_pc, wd_stuck, wd_sweep, wd_found, stuck_listing>>

\* Celery raises SoftTimeLimitExceeded in the task once it has run for the soft limit.
P_SoftLimit(id) ==
    /\ pc[id] \in TryRegion
    /\ now - local[id].task_started >= CELERY_SOFT_TIME_LIMIT
    /\ Raise(id, job[id], "SoftTimeLimitExceeded")
    /\ UNCHANGED <<ct, api, vs, index, cr, now, store, queue, request, locks, persisted,
                   wd_pc, wd_stuck, wd_sweep, wd_found, stuck_listing>>

\* lines 164-171: how the run ends after the final update_job returned (ok) or
\* raised: the exception is logged only, and a failed job raises ValueError.
AfterFinalWrite_Propagate(status, ok) == IF status = "failed" \/ ~ok THEN "raised" ELSE "done"
AfterFinalWrite(status, ok) == IF status = "failed" THEN "raised" ELSE "done"

\* lines 162-171: completed_at, the final update (its exception is logged only),
\* and the ValueError raised for a failed job.
P_Finally(id) ==
    /\ pc[id] = "finally"
    /\ \E ok \in BOOLEAN :
         LET w == UpdateJob([job[id] EXCEPT !.completed_at = Some(now)], now)
         IN /\ job' = [job EXCEPT ![id] = w]
            /\ IF ok
               THEN /\ store' = RedisSet(store, w)
                    /\ persisted' = Logged(persisted, id, w.status)
                    /\ exc' = exc
               ELSE /\ UNCHANGED <<store, persisted>>
                    /\ exc' = [exc EXCEPT ![id] = <<"RedisError", "finally">>]
            /\ pc' = [pc EXCEPT ![id] = AfterFinalWrite(w.status, ok)]
    /\ UNCHANGED <<ct, api, vs, index, cr, now, queue, request, locks, local,
                   wd_pc, wd_stuck, wd_sweep, wd_found, stuck_listing>>

Pipeline(id) ==
    \/ P_Load(id) \/ P_Pending(id) \/ P_Crawling(id) \/ P_Ping(id) \/ P_Lock(id)
    \/ P_Crawl(id) \/ P_Processing(id) \/ P_Chunking(id) \/ P_Embed(id)
    \/ P_Index(id) \/ P_SoftLimit(id) \/ P_Finally(id)

\* The worker of a task is killed by the hard time limit, crashes or hangs:
\* the task is not in a terminal status, makes no further step and is not
\* delivered again.
P_Kill(id) ==
    /\ pc[id] \notin {"none", "killed"}
    /\ id \in DOMAIN store
    /\ store[id].status \notin Terminal
    /\ pc' = [pc EXCEPT ![id] = "killed"]
    /\ queue' = queue \ {id}
    /\ UNCHANGED <<ct, api, vs, index, cr, now, store, request, locks, job, local, exc,
                   persisted, wd_pc, wd_stuck, wd_sweep, wd_found, stuck_listing>>

\* ------------------------------------------------------------ watchdog_task
WatchdogMsg == Msg("Marked failed by watchdog due to inactivity exceeding {} seconds.", "600")

\* tasks.py lines 210-212: what the sweep does to a candidate before updating it.
Reap_KeepStatus(j, t) ==
    [j EXCEPT !.completed_at = Some(t), !.errors = Append(@, WatchdogMsg)]
Reap(j, t) ==
    [j EXCEPT !.status = "failed", !.completed_at = Some(t), !.errors = Append(@, WatchdogMsg)]

\* tasks.py lines 213-223: the candidates left after one was processed, its
\* update having succeeded or raised.
AfterReap_Abort(stuck, ok) == IF ok THEN Tail(stuck) ELSE <<>>
AfterReap(stuck, ok) == Tail(stuck)

\* lines 203-207: the scan; an exception of it is caught at line 224, and an
\* empty result ends the task.
W_Scan ==
    /\ wd_pc = "idle"
    /\ \E ok \in BOOLEAN, keys \in KeyOrders(store) :
         LET found == IF ok THEN ScanLoop(store, keys, now, WATCHDOG_THRESHOLD_SECONDS) ELSE <<>>
         IN /\ wd_stuck' = found
            /\ wd_found' = {found[i].job_id : i \in 1..Len(found)}
            /\ wd_sweep' = <<>>
            /\ wd_pc' = IF found = <<>> THEN "idle" ELSE "reaping"
    /\ UNCHANGED <<ct, api, vs, index, cr, now, store, queue, request, locks, pc, job, local, exc, persisted,
                   stuck_listing>>

\* lines 209-223: one pass of the loop over stuck_jobs.
W_Reap ==
    /\ wd_pc = "reaping"
    /\ \E ok \in BOOLEAN :
         LET w == UpdateJob(Reap(Head(wd_stuck), now), now)
             rest == AfterReap(wd_stuck, ok)
         IN /\ IF ok
               THEN /\ store' = RedisSet(store, w)
                    /\ persisted' = Logged(persisted, w.job_id, w.status)
               ELSE UNCHANGED <<store, persisted>>
            /\ wd_sweep' = Append(wd_sweep, <<w.job_id, ok>>)
            /\ wd_stuck' = rest
            /\ wd_pc' = IF rest = <<>> THEN "idle" ELSE "reaping"
    /\ UNCHANGED <<ct, api, vs, index, cr, now, queue, request, locks, pc, job, local, exc, wd_found, stuck_listing>>

\* ------------------------------------------------------- GET /health/jobs
\* routers/status.py get_stuck_jobs: the same scan; an exception answers 500.
get_stuck_jobs ==
    /\ \E ok \in BOOLEAN, keys \in KeyOrders(store) :
         LET found == ScanLoop(store, keys, now, WATCHDOG_THRESHOLD_SECONDS)
         IN stuck_listing' = IF ok
                             THEN [code |-> 200, jobs |-> {found[i].job_id : i \in 1..Len(found)}]
                             ELSE [code |-> 500, jobs |-> {}]
    /\ UNCHANGED <<ct, api, vs, index, cr, now, store, queue, request, locks, pc, job, local, exc, persisted,
                   wd_pc, wd_stuck, wd_sweep, wd_found>>

\* ---------------------------------------------------------- VectorStore
\* The class state for one job: _indexes[job_id] (dimension d and vectors),
\* _chunk_metadata[job_id] and _chunk_id_map[job_id]; absent when the job is
\* not in the dictionaries.
NoResident == [present |-> FALSE]
NoMetadata == [chunk_id \in {} |-> chunk_id]
NewResident(d) ==
    [present |-> TRUE, d |-> d, vectors |-> <<>>, chunk_metadata |-> NoMetadata,
     chunk_id_map |-> <<>>]

\* The three files of one job: index_<job>.faiss, metadata_<job>.json and
\* id_map_<job>.json, each absent or holding what was written.
NoFiles == [index |-> None, metadata |-> None, id_map |-> None]

\* The chunks of a call of add_documents for a job: the documents they come from
\* are that job's.
Owned(job_id, chunks) ==
    [i \in 1..Len(chunks) |->
        [chunk_id |-> chunks[i].chunk_id, embedding |-> chunks[i].embedding, owner |-> job_id]]

\* add_documents lines 121-123: every embedding is non-empty and as long as the first.
SameDimension(chunks) ==
    \A i \in 1..Len(chunks) :
        chunks[i].embedding # <<>> /\ Len(chunks[i].embedding) = Len(chunks[1].embedding)

\* add_documents line 135: the test against the dimension of the job's index.
DimensionMismatch_Ignored(r, embedding_dim) == FALSE
DimensionMismatch(r, embedding_dim) == r.d # embedding_dim

\* add_documents lines 149-154 for one chunk: the vector is added to the index,
\* the chunk stored under its chunk_id and the chunk_id appended to the id map.
AddChunk_MapFirst(r, chunk) ==
    [r EXCEPT !.vectors = Append(@, chunk.embedding),
              !.chunk_metadata = (chunk.chunk_id :> chunk) @@ @,
              !.chunk_id_map = <<chunk.chunk_id>> \o @]
AddChunk(r, chunk) ==
    [r EXCEPT !.vectors = Append(@, chunk.embedding),
              !.chunk_metadata = (chunk.chunk_id :> chunk) @@ @,
              !.chunk_id_map = Append(@, chunk.chunk_id)]

RECURSIVE AddChunks(_, _)
AddChunks(r, chunks) ==
    IF chunks = <<>> THEN r ELSE AddChunks(AddChunk(r, Head(chunks)), Tail(chunks))

\* add_documents lines 141-157: the loop over the batches of FAISS_BATCH_SIZE chunks.
RECURSIVE AddBatches(_, _, _)
AddBatches(r, chunks, i) ==
    IF i > Len(chunks) THEN r
    ELSE LET last == IF i + FAISS_BATCH_SIZE - 1 < Len(chunks)
                     THEN i + FAISS_BATCH_SIZE - 1 ELSE Len(chunks)
         IN AddBatches(AddChunks(r, SubSeq(chunks, i, last)), chunks, i + FAISS_BATCH_SIZE)

\* What a file holds: the data written, or an unreadable rest of a write that
\* did not finish.
File(data) == Some([ok |-> TRUE, data |-> data])
Unreadable == Some([ok |-> FALSE])
Complete(f) == f.index # None /\ f.metadata # None /\ f.id_map # None
Readable(f) == f.index[1].ok /\ f.metadata[1].ok /\ f.id_map[1].ok

\* _load_indexes_from_disk for one job whose index file exists: with the three
\* files the job's state is read from them (and dropped when reading raises),
\* else it is left as it is.
LoadJob_NoIdMap(r, f) ==
    IF Complete(f)
    THEN IF Readable(f)
         THEN [present |-> TRUE, d |-> f.index[1].data.d, vectors |-> f.index[1].data.vectors,
               chunk_metadata |-> f.metadata[1].data, chunk_id_map |-> <<>>]
         ELSE NoResident
    ELSE r
LoadJob(r, f) ==
    IF Complete(f)
    THEN IF Readable(f)
         THEN [present |-> TRUE, d |-> f.index[1].data.d, vectors |-> f.index[1].data.vectors,
               chunk_metadata |-> f.metadata[1].data, chunk_id_map |-> f.id_map[1].data]
         ELSE NoResident
    ELSE r

\* _load_indexes_from_disk lines 65-78: the files of a job with an index file are
\* removed when one is missing or reading raised.
SweepFiles(f) ==
    IF f.index # None /\ (~Complete(f) \/ ~Readable(f)) THEN NoFiles ELSE f

\* _load_indexes_from_disk over all index files.
LoadAll(resident, disk) ==
    [j \in JobIds |-> IF disk[j].index # None THEN LoadJob(resident[j], disk[j])
                     ELSE resident[j]]
SweepAll(disk) == [j \in JobIds |-> SweepFiles(disk[j])]

\* The squared L2 distance IndexFlatL2 computes.
RECURSIVE L2(_, _)
L2(a, b) ==
    IF a = <<>> THEN 0
    ELSE (Head(a) - Head(b)) * (Head(a) - Head(b)) + L2(Tail(a), Tail(b))

\* index.search(query, k): the ordinals of the k nearest vectors by ascending
\* distance (equal distances in any order), fewer when the index holds fewer
\* (the -1 slots).
RECURSIVE Nearest(_, _, _, _)
Nearest(vectors, q, left, n) ==
    IF n = 0 \/ left = {} THEN {<<>>}
    ELSE UNION {{<<x>> \o rest : rest \in Nearest(vectors, q, left \ {x}, n - 1)} :
                  x \in {y \in left : \A z \in left : L2(vectors[y], q) <= L2(vectors[z], q)}}
FaissSearch_All(vectors, q, k) == Nearest(vectors, q, 1..Len(vectors), Len(vectors))
FaissSearch(vectors, q, k) == Nearest(vectors, q, 1..Len(vectors), k)

\* search lines 190-208: the loop over the ordinals found; an ordinal beyond
\* the id map or a chunk_id without metadata is skipped.
RECURSIVE Collect(_, _, _)
Collect(r, q, ords) ==
    IF ords = <<>> THEN <<>>
    ELSE LET idx == Head(ords)
             rest == Collect(r, q, Tail(ords))
         IN IF idx > Len(r.chunk_id_map) THEN rest
            ELSE IF r.chunk_id_map[idx] \notin DOMAIN r.chunk_metadata THEN rest
            ELSE <<(<<L2(r.vectors[idx], q), r.chunk_metadata[r.chunk_id_map[idx]]>>)>> \o rest

\* results.sort(key=distance): a stable sort, by insertion.
RECURSIVE Insert_Descending(_, _)
Insert_Descending(sorted, x) ==
    IF sorted = <<>> THEN <<x>>
    ELSE IF x[1] > Head(sorted)[1] THEN <<x>> \o sorted
    ELSE <<Head(sorted)>> \o Insert_Descending(Tail(sorted), x)
RECURSIVE Insert(_, _)
Insert(sorted, x) ==
    IF sorted = <<>> THEN <<x>>
    ELSE IF x[1] < Head(sorted)[1] THEN <<x>> \o sorted
    ELSE <<Head(sorted)>> \o Insert(Tail(sorted), x)
RECURSIVE SortByDistance(_)
SortByDistance(results) ==
    IF results = <<>> THEN <<>>
    ELSE Insert(SortByDistance(SubSeq(results, 1, Len(results) - 1)), Last(results))

\* search lines 178-212 on a resident job: the possible results, or the
\* ValueError for a query of another dimension.
SearchOutcomes(r, q, k) ==
    IF Len(q) # r.d THEN {[raised |-> "QueryDimension", results |-> <<>>]}
    ELSE {[raised |-> "none", results |-> SortByDistance(Collect(r, q, o))] :
             o \in FaissSearch(r.vectors, q, k)}

\* index.ntotal of a job, 0 without index.
NumVectorsOf(r) == IF r.present THEN Len(r.vectors) ELSE 0

\* get_indexed_chunk: the chunk stored under chunk_id for the job, or None.
get_indexed_chunk(r, chunk_id) ==
    IF r.present /\ chunk_id \in DOMAIN r.chunk_metadata
    THEN Some(r.chunk_metadata[chunk_id]) ELSE None

\* The store of one process: the class dictionaries (resident), the files
\* (disk), the position of the call in progress and what the last call returned.
NoCall == [job_id |-> 0]
NoResult == [op |-> "none"]
VectorStore ==
    [pc |-> "idle", resident |-> [j \in JobIds |-> NoResident],
     disk |-> [j \in JobIds |-> NoFiles], call |-> NoCall, calls |-> 0,
     result |-> NoResult]

\* add_documents up to the call of _save_index.
VS_Add(job_id) ==
    /\ vs.pc = "idle"
    /\ vs.calls < MaxCalls
    /\ \E list \in ChunkLists :
         LET chunks == Owned(job_id, list)
             r == vs.resident[job_id]
             called == [vs EXCEPT !.calls = @ + 1]
             returned(raised, count) ==
                 [called EXCEPT !.result = [op |-> "add", job_id |-> job_id, chunks |-> chunks,
                                            raised |-> raised, count |-> count]]
         IN IF chunks = <<>> THEN vs' = returned("none", 0)
            ELSE IF ~SameDimension(chunks) THEN vs' = returned("SameDimension", 0)
            ELSE IF r.present /\ DimensionMismatch(r, Len(chunks[1].embedding))
            THEN vs' = returned("DimensionMismatch", 0)
            ELSE LET faiss == IF r.present THEN r ELSE NewResident(Len(chunks[1].embedding))
                 IN vs' = [called EXCEPT !.resident[job_id] = AddBatches(faiss, chunks, 1),
                                         !.pc = "write_index",
                                         !.call = [job_id |-> job_id, chunks |-> chunks, before |-> r],
                                         !.result = NoResult]
    /\ UNCHANGED <<ct, now, store, queue, request, locks, pc, job, local, exc, persisted,
                   wd_pc, wd_stuck, wd_sweep, wd_found, stuck_listing, index, cr, api>>

\* _save_index line 110 and add_documents line 160: the exception of a write
\* leaves add_documents.
SaveRaised(unreadable, file) ==
    [vs EXCEPT !.pc = "idle", !.call = NoCall,
               !.disk[vs.call.job_id] =
                   IF unreadable THEN [@ EXCEPT ![file] = Unreadable] ELSE @,
               !.result = [op |-> "add", job_id |-> vs.call.job_id, chunks |-> vs.call.chunks,
                           raised |-> "SaveFailed", count |-> 0]]

\* _save_index line 95: faiss.write_index.
VS_WriteIndex ==
    /\ vs.pc = "write_index"
    /\ LET r == vs.resident[vs.call.job_id]
       IN \/ vs' = [vs EXCEPT !.pc = "write_metadata",
                              !.disk[vs.call.job_id].index = File([d |-> r.d, vectors |-> r.vectors])]
          \/ \E unreadable \in BOOLEAN : vs' = SaveRaised(unreadable, "index")
    /\ UNCHANGED <<ct, now, store, queue, request, locks, pc, job, local, exc, persisted,
                   wd_pc, wd_stuck, wd_sweep, wd_found, stuck_listing, index, cr, api>>

\* _save_index lines 98-102: the metadata file.
VS_WriteMetadata ==
    /\ vs.pc = "write_metadata"
    /\ LET r == vs.resident[vs.call.job_id]
       IN \/ vs' = [vs EXCEPT !.pc = "write_id_map",
                              !.disk[vs.call.job_id].metadata = File(r.chunk_metadata)]
          \/ \E unreadable \in BOOLEAN : vs' = SaveRaised(unreadable, "metadata")
    /\ UNCHANGED <<ct, now, store, queue, request, locks, pc, job, local, exc, persisted,
                   wd_pc, wd_stuck, wd_sweep, wd_found, stuck_listing, index, cr, api>>

\* _save_index lines 104-105 and add_documents lines 161-163: the id-map file,
\* and the return of the number of chunks added.
VS_WriteIdMap ==
    /\ vs.pc = "write_id_map"
    /\ LET r == vs.resident[vs.call.job_id]
       IN \/ vs' = [vs EXCEPT !.pc = "idle", !.call = NoCall,
                              !.disk[vs.call.job_id].id_map = File(r.chunk_id_map),
                              !.result = [op |-> "add", job_id |-> vs.call.job_id,
                                          chunks |-> vs.call.chunks, raised |-> "none",
                                          count |-> Len(vs.call.chunks)]]
          \/ \E unreadable \in BOOLEAN : vs' = SaveRaised(unreadable, "id_map")
    /\ UNCHANGED <<ct, now, store, queue, request, locks, pc, job, local, exc, persisted,
                   wd_pc, wd_stuck, wd_sweep, wd_found, stuck_listing, index, cr, api>>

\* The process ends, between two calls or between two writes of _save_index:
\* the class dictionaries are gone, the files stay. The result keeps where it
\* ended.
VS_Stop ==
    /\ vs.pc # "down"
    /\ vs' = [vs EXCEPT !.pc = "down", !.call = NoCall,
                        !.result = [op |-> "stop", at |-> vs.pc, job_id |-> vs.call.job_id],
                        !.resident = [j \in JobIds |-> NoResident]]
    /\ UNCHANGED <<ct, now, store, queue, request, locks, pc, job, local, exc, persisted,
                   wd_pc, wd_stuck, wd_sweep, wd_found, stuck_listing, index, cr, api>>

\* A new process constructs the store: __init__ loads the indexes from disk.
VS_Start ==
    /\ vs.pc = "down"
    /\ vs' = [vs EXCEPT !.pc = "idle", !.resident = LoadAll(@, vs.disk),
                        !.disk = SweepAll(@), !.result = [op |-> "load"]]
    /\ UNCHANGED <<ct, now, store, queue, request, locks, pc, job, local, exc, persisted,
                   wd_pc, wd_stuck, wd_sweep, wd_found, stuck_listing, index, cr, api>>

\* search: taken under the lock, so between two calls of add_documents.
VS_Search(job_id) ==
    /\ vs.pc = "idle"
    /\ \E q \in Queries, k \in KChoices :
         LET reload == ~vs.resident[job_id].present
             resident == IF reload THEN LoadAll(vs.resident, vs.disk) ELSE vs.resident
             disk == IF reload THEN SweepAll(vs.disk) ELSE vs.disk
             returned(out) ==
                 [vs EXCEPT !.resident = resident, !.disk = disk,
                            !.result = [op |-> "search", job_id |-> job_id, q |-> q, k |-> k,
                                        raised |-> out.raised, results |-> out.results]]
         IN IF ~resident[job_id].present
            THEN vs' = returned([raised |-> "none", results |-> <<>>])
            ELSE \E out \in SearchOutcomes(resident[job_id], q, k) : vs' = returned(out)
    /\ UNCHANGED <<ct, now, store, queue, request, locks, pc, job, local, exc, persisted,
                   wd_pc, wd_stuck, wd_sweep, wd_found, stuck_listing, index, cr, api>>

\* ------------------------------------------------ VectorStore, by threads
\* The calls of the threads of one process on the store of one job, statement
\* by statement: _lock is the class RLock (owner thread and depth), each thread
\* has the position of its call and what its last read saw.
Threads == {1, 2}
ThreadCalls ==
    {[op |-> "add", chunks |-> Owned(1, list)] :
        list \in {l \in ChunkLists : l # <<>> /\ SameDimension(l) /\ Len(l[1].embedding) = 1}}
    \cup {[op |-> "search", q |-> <<1>>, k |-> RETRIEVER_TOP_K]}
    \cup {[op |-> "get", chunk_id |-> "c1"]}
NoSeen == [op |-> "none"]
ThreadedStore ==
    [lock |-> [owner |-> 0, depth |-> 0], resident |-> NoResident, disk |-> NoFiles,
     calls |-> 0,
     th |-> [t \in Threads |-> [pc |-> "idle", call |-> [op |-> "none"], i |-> 0, seen |-> NoSeen]]]

\* RLock: free, or held by the thread that asks.
CanAcquire_Always(lock, t) == TRUE
CanAcquire(lock, t) == lock.owner \in {0, t}
Acquired(lock, t) == [owner |-> t, depth |-> lock.depth + 1]
Released(lock) ==
    IF lock.depth <= 1 THEN [owner |-> 0, depth |-> 0] ELSE [lock EXCEPT !.depth = @ - 1]

\* A thread enters add_documents (the validation of lines 117-123 passed),
\* search or get_indexed_chunk.
T_Call(t) ==
    /\ vs.th[t].pc = "idle"
    /\ vs.calls < MaxCalls
    /\ \E call \in ThreadCalls :
         vs' = [vs EXCEPT !.calls = @ + 1,
                          !.th[t] = [pc |-> "acquire", call |-> call, i |-> 0, seen |-> NoSeen]]
    /\ UNCHANGED <<ct, now, store, queue, request, locks, pc, job, local, exc, persisted,
                   wd_pc, wd_stuck, wd_sweep, wd_found, stuck_listing, index, cr, api>>

\* with self._lock: lines 125, 170 and 216.
T_Acquire(t) ==
    /\ vs.th[t].pc = "acquire"
    /\ CanAcquire(vs.lock, t)
    /\ vs' = [vs EXCEPT !.lock = Acquired(@, t),
                        !.th[t].pc = IF vs.th[t].call.op = "add" THEN "add_vectors"
                                     ELSE vs.th[t].call.op]
    /\ UNCHANGED <<ct, now, store, queue, request, locks, pc, job, local, exc, persisted,
                   wd_pc, wd_stuck, wd_sweep, wd_found, stuck_listing, index, cr, api>>

\* add_documents lines 126-149: the index is created when the job has none,
\* and the vectors of the batch are added to it.
T_AddVectors(t) ==
    /\ vs.th[t].pc = "add_vectors"
    /\ LET chunks == vs.th[t].call.chunks
           r == IF vs.resident.present THEN vs.resident
                ELSE NewResident(Len(chunks[1].embedding))
       IN vs' = [vs EXCEPT !.resident =
                               [r EXCEPT !.vectors =
                                   @ \o [i \in 1..Len(chunks) |-> chunks[i].embedding]],
                           !.th[t].pc = "store_chunk", !.th[t].i = 1]
    /\ UNCHANGED <<ct, now, store, queue, request, locks, pc, job, local, exc, persisted,
                   wd_pc, wd_stuck, wd_sweep, wd_found, stuck_listing, index, cr, api>>

\* add_documents lines 152-154: one chunk of the batch gets its metadata entry
\* and its place in the id map.
T_StoreChunk(t) ==
    /\ vs.th[t].pc = "store_chunk"
    /\ LET chunks == vs.th[t].call.chunks
           chunk == chunks[vs.th[t].i]
       IN vs' = [vs EXCEPT !.resident.chunk_metadata = (chunk.chunk_id :> chunk) @@ @,
                           !.resident.chunk_id_map = Append(@, chunk.chunk_id),
                           !.th[t].i = @ + 1,
                           !.th[t].pc = IF vs.th[t].i = Len(chunks) THEN "save" ELSE "store_chunk"]
    /\ UNCHANGED <<ct, now, store, queue, request, locks, pc, job, local, exc, persisted,
                   wd_pc, wd_stuck, wd_sweep, wd_found, stuck_listing, index, cr, api>>

\* add_documents line 160: _save_index takes the lock again (which the thread
\* holds), writes the three files and gives it back.
T_Save(t) ==
    /\ vs.th[t].pc = "save"
    /\ CanAcquire(vs.lock, t)
    /\ vs' = [vs EXCEPT !.lock = Released(Acquired(@, t)),
                        !.disk = [index |-> File([d |-> vs.resident.d, vectors |-> vs.resident.vectors]),
                                  metadata |-> File(vs.resident.chunk_metadata),
                                  id_map |-> File(vs.resident.chunk_id_map)],
                        !.th[t].pc = "release"]
    /\ UNCHANGED <<ct, now, store, queue, request, locks, pc, job, local, exc, persisted,
                   wd_pc, wd_stuck, wd_sweep, wd_found, stuck_listing, index, cr, api>>

\* search lines 171-212 under the lock: what the thread finds in the index and
\* in the id map.
T_Search(t) ==
    /\ vs.th[t].pc = "search"
    /\ LET r == IF vs.resident.present THEN vs.resident ELSE LoadJob(vs.resident, vs.disk)
       IN IF ~r.present
          THEN vs' = [vs EXCEPT !.th[t].pc = "release",
                                !.th[t].seen = [op |-> "search", ntotal |-> 0, ids |-> 0,
                                                results |-> <<>>]]
          ELSE \E out \in SearchOutcomes(r, vs.th[t].call.q, vs.th[t].call.k) :
                 vs' = [vs EXCEPT !.resident = r, !.th[t].pc = "release",
                                  !.th[t].seen = [op |-> "search", ntotal |-> Len(r.vectors),
                                                  ids |-> Len(r.chunk_id_map),
                                                  results |-> out.results]]
    /\ UNCHANGED <<ct, now, store, queue, request, locks, pc, job, local, exc, persisted,
                   wd_pc, wd_stuck, wd_sweep, wd_found, stuck_listing, index, cr, api>>

\* get_indexed_chunk lines 217-219 under the lock.
T_Get(t) ==
    /\ vs.th[t].pc = "get"
    /\ vs' = [vs EXCEPT !.th[t].pc = "release",
                        !.th[t].seen = [op |-> "get", ntotal |-> NumVectorsOf(vs.resident),
                                        ids |-> IF vs.resident.present
                                                THEN Len(vs.resident.chunk_id_map) ELSE 0,
                                        chunk |-> get_indexed_chunk(vs.resident,
                                                                    vs.th[t].call.chunk_id)]]
    /\ UNCHANGED <<ct, now, store, queue, request, locks, pc, job, local, exc, persisted,
                   wd_pc, wd_stuck, wd_sweep, wd_found, stuck_listing, index, cr, api>>

\* The end of the with block: the call returns.
T_Release(t) ==
    /\ vs.th[t].pc = "release"
    /\ vs' = [vs EXCEPT !.lock = Released(@), !.th[t].pc = "idle"]
    /\ UNCHANGED <<ct, now, store, queue, request, locks, pc, job, local, exc, persisted,
                   wd_pc, wd_stuck, wd_sweep, wd_found, stuck_listing, index, cr, api>>

\* ------------------------------------------ BaseGenerator._assess_confidence
\* The scores of retrieved chunks are the distances search returns, here in
\* tenths: 0.1, 0.7 and 0.9.
Distances == {1, 7, 9}
RECURSIVE Sum(_)
Sum(scores) == IF scores = <<>> THEN 0 ELSE Head(scores) + Sum(Tail(scores))

\* The lists retrieve_chunks can return: up to MaxRetrieved distances in the
\* ascending order of search.
RetrievedLists ==
    UNION {{l \in [1..n -> Distances] : \A i \in 1..n - 1 : l[i] <= l[i + 1]} :
              n \in 0..MaxRetrieved}

\* _assess_confidence lines 59-70: avg_top_score > 0.8 with three chunks or
\* more is high, avg_top_score > 0.6 is medium, the rest is low (the average
\* of tenths compared without the division).
AssessConfidence(top_scores) ==
    IF top_scores = <<>> THEN "low"
    ELSE IF Sum(top_scores) > 8 * Len(top_scores) /\ Len(top_scores) >= 3 THEN "high"
    ELSE IF Sum(top_scores) > 6 * Len(top_scores) /\ Len(top_scores) >= 1 THEN "medium"
    ELSE "low"

\* Two asks, A and B, with the chunks retrieved for each.
NoConfidence == [A |-> None, B |-> None]
G_Assess(which) ==
    /\ api.confidence[which] = None
    /\ api' = [api EXCEPT !.confidence[which] = Some(AssessConfidence(api.retrieved[which]))]
    /\ UNCHANGED <<ct, now, store, queue, request, locks, pc, job, local, exc, persisted,
                   wd_pc, wd_stuck, wd_sweep, wd_found, stuck_listing, index, cr, vs>>

\* ------------------------------------------------------------- chunk_text
\* Texts are strings of letters, full stops and spaces, up to MaxText long.
Chars == {"x", ".", " "}
Texts == UNION {[1..n -> Chars] : n \in 0..MaxText}

\* str.strip() for the space.
RECURSIVE LStrip(_)
LStrip(str) == IF str # <<>> /\ Head(str) = " " THEN LStrip(Tail(str)) ELSE str
RECURSIVE RStrip(_)
RStrip(str) ==
    IF str # <<>> /\ Last(str) = " " THEN RStrip(SubSeq(str, 1, Len(str) - 1)) ELSE str
Strip(str) == RStrip(LStrip(str))

\* " ".join(list)
RECURSIVE Join(_)
Join(list) ==
    IF list = <<>> THEN <<>>
    ELSE IF Len(list) = 1 THEN list[1]
    ELSE list[1] \o <<" ">> \o Join(Tail(list))

\* re.split(r'(?<=[.!?])\s+', text): the text is cut at every run of spaces
\* that follows a full stop, and the run is dropped.
RECURSIVE SkipSpaces(_, _)
SkipSpaces(text, i) ==
    IF i <= Len(text) /\ text[i] = " " THEN SkipSpaces(text, i + 1) ELSE i
RECURSIVE SplitSentences(_, _, _)
SplitSentences(text, i, sentence) ==
    IF i > Len(text) THEN <<sentence>>
    ELSE IF text[i] = " " /\ i > 1 /\ text[i - 1] = "."
    THEN <<sentence>> \o SplitSentences(text, SkipSpaces(text, i), <<>>)
    ELSE SplitSentences(text, i + 1, Append(sentence, text[i]))

\* sentence.rfind(' ', 0, chunk_size): the last space among the first
\* chunk_size characters, as a count of the characters before it, or -1.
RFind(sentence, chunk_size) ==
    LET at == {i \in 1..Len(sentence) : i <= chunk_size /\ sentence[i] = " "}
    IN IF at = {} THEN -1 ELSE (CHOOSE i \in at : \A o \in at : o <= i) - 1

\* Lines 67-73: the sentences at the end of the chunk that fit into the overlap.
RECURSIVE OverlapSentences(_, _, _, _)
OverlapSentences(current_chunk, i, overlap_length, chunk_overlap) ==
    IF i = 0 THEN <<>>
    ELSE IF overlap_length + Len(current_chunk[i]) + 1 <= chunk_overlap
    THEN OverlapSentences(current_chunk, i - 1, overlap_length + Len(current_chunk[i]) + 1,
                          chunk_overlap) \o <<current_chunk[i]>>
    ELSE <<>>

\* Line 79: the test of the loop that splits a long sentence.
SplitsLong(current_length, chunk_size, current_chunk) ==
    current_length > chunk_size /\ Len(current_chunk) = 1

\* Lines 79-86: the loop that splits a sentence longer than chunk_size.
RECURSIVE SplitLong(_, _, _, _, _)
SplitLong(chunks, current_chunk, current_length, sentence, chunk_size) ==
    IF SplitsLong(current_length, chunk_size, current_chunk)
    THEN LET found == RFind(sentence, chunk_size)
             split_point == IF found = -1 \/ found * 10 < chunk_size * 8
                            THEN chunk_size ELSE found
             cut == IF split_point < Len(sentence) THEN split_point ELSE Len(sentence)
             rest == Strip(SubSeq(sentence, cut + 1, Len(sentence)))
         IN SplitLong(Append(chunks, Strip(SubSeq(sentence, 1, cut))), <<rest>>, Len(rest),
                      rest, chunk_size)
    ELSE [chunks |-> chunks, current_chunk |-> current_chunk, current_length |-> current_length]

\* sum(get_length(s) + 1 for s in current_chunk)
RECURSIVE LengthOf(_)
LengthOf(list) == IF list = <<>> THEN 0 ELSE Len(Head(list)) + 1 + LengthOf(Tail(list))

\* A call of chunk_text.
ChunkCall(text, chunk_size, chunk_overlap) ==
    [pc |-> "start", text |-> text, chunk_size |-> chunk_size, chunk_overlap |-> chunk_overlap,
     sentences |-> <<>>, chunks |-> <<>>, current_chunk |-> <<>>, current_length |-> 0]

\* Lines 40-46.
K_Start ==
    /\ ct.pc = "start"
    /\ ct' = IF ct.text = <<>> THEN [ct EXCEPT !.pc = "done"]
             ELSE [ct EXCEPT !.pc = "loop", !.sentences = SplitSentences(ct.text, 1, <<>>)]
    /\ UNCHANGED <<now, store, queue, request, locks, pc, job, local, exc, persisted,
                   wd_pc, wd_stuck, wd_sweep, wd_found, stuck_listing, index, cr, api, vs>>

\* Lines 51-86: one pass of the loop over the sentences.
K_Sentence ==
    /\ ct.pc = "loop"
    /\ ct.sentences # <<>>
    /\ LET sentence == Head(ct.sentences)
           next == [ct EXCEPT !.sentences = Tail(@)]
       IN IF ct.current_length + Len(sentence) + Len(ct.current_chunk) <= ct.chunk_size
          THEN ct' = [next EXCEPT !.current_chunk = Append(@, sentence),
                                  !.current_length = @ + Len(sentence) + 1]
          ELSE LET chunks == IF ct.current_chunk # <<>>
                             THEN Append(ct.chunks, Strip(Join(ct.current_chunk)))
                             ELSE ct.chunks
                   current_chunk ==
                       OverlapSentences(ct.current_chunk, Len(ct.current_chunk), 0,
                                        ct.chunk_overlap) \o <<sentence>>
                   split == SplitLong(chunks, current_chunk, LengthOf(current_chunk), sentence,
                                      ct.chunk_size)
               IN ct' = [next EXCEPT !.chunks = split.chunks,
                                     !.current_chunk = split.current_chunk,
                                     !.current_length = split.current_length]
    /\ UNCHANGED <<now, store, queue, request, locks, pc, job, local, exc, persisted,
                   wd_pc, wd_stuck, wd_sweep, wd_found, stuck_listing, index, cr, api, vs>>

\* Lines 88-91: the last chunk, and the return without the empty chunks.
K_Return ==
    /\ ct.pc = "loop"
    /\ ct.sentences = <<>>
    /\ LET chunks == IF ct.current_chunk # <<>>
                     THEN Append(ct.chunks, Strip(Join(ct.current_chunk)))
                     ELSE ct.chunks
       IN ct' = [ct EXCEPT !.pc = "done", !.chunks = SelectSeq(chunks, LAMBDA c : c # <<>>)]
    /\ UNCHANGED <<now, store, queue, request, locks, pc, job, local, exc, persisted,
                   wd_pc, wd_stuck, wd_sweep, wd_found, stuck_listing, index, cr, api, vs>>

\* ------------------------------------------------------ WebCrawler.crawl
\* crawler.py lines 94-96: the locals of crawl at its first loop test, for the
\* arguments of the call.  fetches, dropped, gets and sleeps record the calls of
\* _fetch_url, the URLs it returned nothing for, and the client.get calls and
\* the sleeps of the current _fetch_url call.
CrawlCall(links, seed_urls, max_pages, max_depth, max_retries) ==
    [pc |-> "loop", links |-> links, seed_urls |-> seed_urls, max_pages |-> max_pages,
     max_depth |-> max_depth, max_retries |-> max_retries,
     visited_urls |-> {},
     urls_to_visit |-> [i \in 1..Len(seed_urls) |-> <<seed_urls[i], 0>>],
     crawled_documents |-> <<>>,
     current |-> <<"", 0>>, attempt |-> 0, html |-> "none",
     fetches |-> <<>>, dropped |-> {}, gets |-> 0, sleeps |-> <<>>]

\* lines 98 and 106: the max_pages test.
PagesLimitReached_Late(n, max_pages) == n > max_pages
PagesLimitReached(n, max_pages) == n >= max_pages

\* line 111: the max_depth test before a fetch.
TooDeep(depth, max_depth) == depth > max_depth

\* line 134: links are extracted only from a page whose depth is below max_depth.
ExtractLinks_AtMaxDepth(depth, max_depth) == depth <= max_depth
ExtractLinks(depth, max_depth) == depth < max_depth

\* line 138: a link is enqueued unless visited or already in the frontier.
Enqueueable_IgnoreFrontier(link, visited, frontier) == link \notin visited
Enqueueable(link, visited, frontier) ==
    link \notin visited /\ link \notin {frontier[i][1] : i \in 1..Len(frontier)}

\* line 44: the sleep after a failed attempt.
Backoff_Linear(attempt) == 2 * attempt
Backoff(attempt) == 2 ^ attempt

\* `for link in found_links` walks a set: any order.
Orders(S) == {o \in [1..Cardinality(S) -> S] : Range(o) = S}

\* lines 98-116: the loop test, the pop and the tests before the fetch.
C_Loop_SkipKeepsEntry ==
    /\ cr.pc = "loop"
    /\ IF cr.urls_to_visit = <<>>
          \/ PagesLimitReached(Len(cr.crawled_documents), cr.max_pages)
       THEN cr' = [cr EXCEPT !.pc = "done"]
       ELSE LET cur == Head(cr.urls_to_visit)
                popped == [cr EXCEPT !.urls_to_visit = Tail(@)]
            IN IF cur[1] \in cr.visited_urls
               THEN cr' = cr
               ELSE IF PagesLimitReached(Len(cr.crawled_documents), cr.max_pages)
               THEN cr' = [popped EXCEPT !.pc = "done"]
               ELSE IF TooDeep(cur[2], cr.max_depth)
               THEN cr' = popped
               ELSE cr' = [popped EXCEPT !.visited_urls = @ \cup {cur[1]},
                                         !.current = cur, !.attempt = 0, !.html = "none",
                                         !.fetches = Append(@, cur),
                                         !.gets = 0, !.sleeps = <<>>,
                                         !.pc = "fetch"]
    /\ UNCHANGED <<ct, api, vs, now, store, queue, request, locks, pc, job, local, exc, persisted,
                   wd_pc, wd_stuck, wd_sweep, wd_found, stuck_listing, index>>
C_Loop ==
    /\ cr.pc = "loop"
    /\ IF cr.urls_to_visit = <<>>
          \/ PagesLimitReached(Len(cr.crawled_documents), cr.max_pages)
       THEN cr' = [cr EXCEPT !.pc = "done"]
       ELSE LET cur == Head(cr.urls_to_visit)
                popped == [cr EXCEPT !.urls_to_visit = Tail(@)]
            IN IF cur[1] \in cr.visited_urls
               THEN cr' = popped
               ELSE IF PagesLimitReached(Len(cr.crawled_documents), cr.max_pages)
               THEN cr' = [popped EXCEPT !.pc = "done"]
               ELSE IF TooDeep(cur[2], cr.max_depth)
               THEN cr' = popped
               ELSE cr' = [popped EXCEPT !.visited_urls = @ \cup {cur[1]},
                                         !.current = cur, !.attempt = 0, !.html = "none",
                                         !.fetches = Append(@, cur),
                                         !.gets = 0, !.sleeps = <<>>,
                                         !.pc = "fetch"]
    /\ UNCHANGED <<ct, api, vs, now, store, queue, request, locks, pc, job, local, exc, persisted,
                   wd_pc, wd_stuck, wd_sweep, wd_found, stuck_listing, index>>

\* _fetch_url lines 31-46: one attempt; a response ends the call, a failure is
\* followed by the backoff sleep while retries are left, else None is returned.
C_Attempt ==
    /\ cr.pc = "fetch"
    /\ \E outcome \in FetchOutcomes :
         IF outcome # "error"
         THEN cr' = [cr EXCEPT !.gets = @ + 1, !.html = outcome, !.pc = "handle"]
         ELSE IF cr.attempt < cr.max_retries
         THEN cr' = [cr EXCEPT !.gets = @ + 1, !.sleeps = Append(@, Backoff(cr.attempt)),
                               !.attempt = @ + 1]
         ELSE cr' = [cr EXCEPT !.gets = @ + 1, !.html = "none", !.pc = "handle"]
    /\ UNCHANGED <<ct, api, vs, now, store, queue, request, locks, pc, job, local, exc, persisted,
                   wd_pc, wd_stuck, wd_sweep, wd_found, stuck_listing, index>>

\* crawl lines 119-145: a non-empty response becomes a document and, below
\* max_depth, its links are enqueued; no content drops the URL.
C_Handle ==
    /\ cr.pc = "handle"
    /\ IF cr.html = "html"
       THEN LET url == cr.current[1]
                depth == cr.current[2]
                docs == Append(cr.crawled_documents, url)
                new == IF ExtractLinks(depth, cr.max_depth)
                       THEN {l \in cr.links[url] :
                               Enqueueable(l, cr.visited_urls, cr.urls_to_visit)}
                       ELSE {}
            IN \E o \in Orders(new) :
                 cr' = [cr EXCEPT !.crawled_documents = docs,
                                  !.urls_to_visit = @ \o [i \in 1..Len(o) |-> <<o[i], depth + 1>>],
                                  !.pc = "loop"]
       ELSE cr' = [cr EXCEPT !.dropped = @ \cup {cr.current[1]}, !.pc = "loop"]
    /\ UNCHANGED <<ct, api, vs, now, store, queue, request, locks, pc, job, local, exc, persisted,
                   wd_pc, wd_stuck, wd_sweep, wd_found, stuck_listing, index>>

\* The positions up to the return of crawler.crawl (lines 56-104).
CrawlPhase(id) ==
    \/ P_Load(id) \/ P_Pending(id) \/ P_Crawling(id) \/ P_Ping(id) \/ P_Lock(id)
    \/ P_Crawl(id) \/ P_SoftLimit(id)

\* The positions up to the return of crawler.crawl, and the finally block, of a
\* run that stays below the soft time limit.
LockPhase(id) ==
    \/ P_Load(id) \/ P_Pending(id) \/ P_Crawling(id) \/ P_Ping(id) \/ P_Lock(id)
    \/ P_Crawl(id) \/ P_Finally(id)

\* ---------------------------------------------------------- specifications
FirstJob == CHOOSE id \in JobIds : \A o \in JobIds : id <= o

\* One ingest request: its task, the watchdog, the stuck-jobs listing, the clock.
Next ==
    \/ Tick
    \/ ingest_content(FirstJob)
    \/ Pipeline(FirstJob)
    \/ W_Scan
    \/ W_Reap
    \/ get_stuck_jobs

Spec == Init /\ [][Next]_vars

\* One ingest request and its task, no other writer of the job.
NextSolo ==
    \/ Tick
    \/ ingest_content(FirstJob)
    \/ Pipeline(FirstJob)

SpecSolo == Init /\ [][NextSolo]_vars

\* One ingest request whose task can stop at any point, and the watchdog
\* sweep. The request and the task run in the first MaxTime seconds; the clock
\* goes on for a threshold and a step more. The clock advances, a sweep is
\* started whenever a job is stuck, and the update of a candidate does not
\* raise for ever.
StallTime == MaxTime + WATCHDOG_THRESHOLD_SECONDS + ClockStep
TickStall ==
    /\ now < StallTime
    /\ now' = now + ClockStep
    /\ locks' = [u \in Urls |-> IF LockLive(locks[u], now') THEN locks[u] ELSE None]
    /\ UNCHANGED <<ct, api, vs, index, cr, store, queue, request, pc, job, local, exc, persisted,
                   wd_pc, wd_stuck, wd_sweep, wd_found, stuck_listing>>

ScanFinds == W_Scan /\ wd_pc' = "reaping"
ReapUpdates == W_Reap /\ Last(wd_sweep')[2]

NextStall ==
    \/ TickStall
    \/ now <= MaxTime /\ ingest_content(FirstJob)
    \/ now <= MaxTime /\ Pipeline(FirstJob)
    \/ P_Kill(FirstJob)
    \/ W_Scan
    \/ W_Reap

SpecStall ==
    /\ Init /\ [][NextStall]_vars
    /\ WF_vars(TickStall) /\ WF_vars(ScanFinds) /\ SF_vars(ReapUpdates)

\* Two ingest requests whose tasks wait in the broker (no worker takes them),
\* the watchdog and the stuck-jobs listing.
NextSweep ==
    \/ Tick
    \/ \E id \in JobIds : ingest_content(id)
    \/ W_Scan
    \/ W_Reap
    \/ get_stuck_jobs

SpecSweep == Init /\ [][NextSweep]_vars

\* Two ingest requests and their tasks, up to the return of the crawl.
NextCrawl ==
    \/ Tick
    \/ \E id \in JobIds : ingest_content(id)
    \/ \E id \in JobIds : CrawlPhase(id)

SpecCrawl == Init /\ [][NextCrawl]_vars

\* Two ingest requests and their tasks within one lock TTL of each other (the
\* clock stays below its next step), up to the return of the crawl, and the end
\* of the runs that fail before it.
NextLocks ==
    \/ \E id \in JobIds : ingest_content(id)
    \/ \E id \in JobIds : LockPhase(id)

SpecLocks == Init /\ [][NextLocks]_vars

\* Ingest requests of any body, in the handler's two steps (the record, then
\* the task), the start of the tasks and status queries.
NextIngest ==
    \/ \E id \in JobIds : I_Receive(id)
    \/ \E id \in JobIds : I_Enqueue(id)
    \/ \E id \in JobIds : P_Load(id)
    \/ \E id \in JobIds : get_job_status(id)

SpecIngest == Init /\ [][NextIngest]_vars

\* One ingest request and its task, and questions asked about its job id and
\* about an unknown job id at any moment.
NextAsk ==
    \/ Tick
    \/ ingest_content(FirstJob)
    \/ Pipeline(FirstJob)
    \/ \E id \in JobIds : ask_question(id)

SpecAsk == Init /\ [][NextAsk]_vars

\* One call of crawler.crawl, for every link graph, seed list, max_pages,
\* max_depth and pattern of fetch outcomes within the bounds.
InitCrawler ==
    /\ ServiceInit
    /\ api = NoApi /\ vs = NoVectorStore /\ ct = NoChunking
    /\ \E links \in LinkGraphs, seed_urls \in CrawlSeeds,
          max_pages \in 1..CrawlMaxPages, max_depth \in 0..CrawlMaxDepth,
          max_retries \in RetryChoices :
         cr = CrawlCall(links, seed_urls, max_pages, max_depth, max_retries)

NextCrawler ==
    \/ C_Loop
    \/ C_Attempt
    \/ C_Handle

SpecCrawler == InitCrawler /\ [][NextCrawler]_vars

\* The same call of crawl on an event loop that keeps running it: every
\* client.get returns or raises within the request timeout and every sleep ends.
SpecCrawlerRuns == InitCrawler /\ [][NextCrawler]_vars /\ WF_vars(NextCrawler)

\* The ingestion task of a worker process, which has its own class
\* dictionaries, indexes the chunks of a job and saves the three files into the
\* directory the processes share: seen from this process only the files change.
VS_WorkerAdd(job_id) ==
    /\ vs.pc = "idle"
    /\ vs.disk[job_id] = NoFiles
    /\ \E list \in ChunkLists :
         LET chunks == Owned(job_id, list)
         IN /\ chunks # <<>>
            /\ SameDimension(chunks)
            /\ LET r == AddBatches(NewResident(Len(chunks[1].embedding)), chunks, 1)
               IN vs' = [vs EXCEPT !.disk[job_id] =
                                       [index |-> File([d |-> r.d, vectors |-> r.vectors]),
                                        metadata |-> File(r.chunk_metadata),
                                        id_map |-> File(r.chunk_id_map)],
                                   !.result = NoResult]
    /\ UNCHANGED <<ct, now, store, queue, request, locks, pc, job, local, exc, persisted,
                   wd_pc, wd_stuck, wd_sweep, wd_found, stuck_listing, index, cr, api>>

\* The vector store of one process, with the calls of add_documents and search
\* of both jobs within the bounds, and the process stopping and starting.
InitVector ==
    /\ ServiceInit
    /\ cr = NoCrawl /\ api = NoApi /\ ct = NoChunking
    /\ vs = VectorStore

NextVector ==
    \/ \E job_id \in JobIds : VS_Add(job_id)
    \/ VS_WriteIndex
    \/ VS_WriteMetadata
    \/ VS_WriteIdMap
    \/ VS_Stop
    \/ VS_Start
    \/ \E job_id \in JobIds : VS_Search(job_id)

SpecVector == InitVector /\ [][NextVector]_vars

\* The vector store of one process beside a worker process that saves the
\* index of the first job into the same directory.
NextLazy ==
    \/ VS_WorkerAdd(FirstJob)
    \/ \E job_id \in JobIds : VS_Add(job_id)
    \/ VS_WriteIndex
    \/ VS_WriteMetadata
    \/ VS_WriteIdMap
    \/ \E job_id \in JobIds : VS_Search(job_id)

SpecLazy == InitVector /\ [][NextLazy]_vars

\* Two threads of one process calling add_documents, search and
\* get_indexed_chunk for one job.
InitThreads ==
    /\ ServiceInit
    /\ cr = NoCrawl /\ api = NoApi /\ ct = NoChunking
    /\ vs = ThreadedStore

NextThreads ==
    \E t \in Threads :
        \/ T_Call(t)
        \/ T_Acquire(t)
        \/ T_AddVectors(t)
        \/ T_StoreChunk(t)
        \/ T_Save(t)
        \/ T_Search(t)
        \/ T_Get(t)
        \/ T_Release(t)

SpecThreads == InitThreads /\ [][NextThreads]_vars

\* One call of chunk_text, for every text, chunk_size and chunk_overlap within
\* the bounds.
InitChunker ==
    /\ ServiceInit
    /\ cr = NoCrawl /\ api = NoApi /\ vs = NoVectorStore
    /\ \E text \in Texts, chunk_size \in 1..MaxChunkSize, chunk_overlap \in 0..MaxChunkOverlap :
         ct = ChunkCall(text, chunk_size, chunk_overlap)

NextChunker ==
    \/ K_Start
    \/ K_Sentence
    \/ K_Return

SpecChunker == InitChunker /\ [][NextChunker]_vars

\* The confidence of two asks, for every pair of retrieved lists within the
\* bounds.
InitConfidence ==
    /\ ServiceInit
    /\ cr = NoCrawl /\ vs = NoVectorStore /\ ct = NoChunking
    /\ \E a \in RetrievedLists, b \in RetrievedLists :
         api = [retrieved |-> [A |-> a, B |-> b], confidence |-> NoConfidence]

NextConfidence ==
    \/ G_Assess("A")
    \/ G_Assess("B")

SpecConfidence == InitConfidence /\ [][NextConfidence]_vars

\* ------------------------------------------------------------------ claims
Rank(status) ==
    CASE status = "pending" -> 1
      [] status = "crawling" -> 2
      [] status = "processing" -> 3
      [] status = "embedding" -> 4
      [] status = "indexing" -> 5
      [] status \in Terminal -> 6

Ascending(log) == \A i \in 1..(Len(log) - 1) : Rank(log[i]) < Rank(log[i + 1])
FullRun == <<"pending", "crawling", "processing", "embedding", "indexing", "completed">>
RunEnded(id) == pc[id] \in {"done", "raised"}
TerminalsIn(log) == {i \in 1..Len(log) : log[i] \in Terminal}

\* The jobs the stuck predicate of the spec selects in the store at time t.
StuckSet(st, t) ==
    {id \in DOMAIN st : st[id].status \notin Terminal
                        /\ t - st[id].last_heartbeat > WATCHDOG_THRESHOLD_SECONDS}

\* C1: once the persisted status of a job is completed or failed, every later
\* persisted record of the job has that same status.
C1_TerminalIsFinal ==
    [][\A id \in DOMAIN store :
          store[id].status \in Terminal => store'[id].status = store[id].status]_vars

C3_OneCrawlerPerSeed ==
    \A a, b \in JobIds :
        a # b /\ pc[a] = "crawl" /\ pc[b] = "crawl"
          => Range(local[a].crawl_urls) \cap Range(local[b].crawl_urls) = {}

\* C4: every write of a job record carries, in the one record written, the
\* heartbeat of the moment of the write, so a record read with status S never
\* has a heartbeat older than the moment S was persisted.
C4_HeartbeatWithStatus ==
    [][\A id \in DOMAIN store' :
          (id \notin DOMAIN store \/ store'[id] # store[id])
            => store'[id].last_heartbeat = now]_vars

C4_Witness ==
    \E id \in DOMAIN store :
        /\ store[id].status = "crawling"
        /\ store[id].last_heartbeat > store[id].started_at
        /\ now > store[id].last_heartbeat

\* C5: the scan returns exactly the persisted non-terminal jobs with
\* now - last_heartbeat > threshold, to the listing endpoint and to the watchdog alike.
C5_ScanIsStuckSet ==
    [][/\ (get_stuck_jobs /\ stuck_listing'.code = 200
             => stuck_listing'.jobs = StuckSet(store, now))
       /\ (W_Scan /\ wd_pc' = "reaping" => wd_found' = StuckSet(store, now))]_vars

C5_Witness ==
    /\ stuck_listing.code = 200
    /\ Cardinality(stuck_listing.jobs) = 1
    /\ wd_pc = "reaping" /\ wd_sweep = <<>>
    /\ wd_found = stuck_listing.jobs
    /\ \E id \in DOMAIN store :
         /\ store[id].status = "pending"
         /\ now - store[id].last_heartbeat = WATCHDOG_THRESHOLD_SECONDS
         /\ id \notin stuck_listing.jobs

\* C6: a sweep marks every candidate failed with the inactivity error and
\* completed_at and persists it; when persisting one candidate raises, the
\* sweep goes on with the remaining candidates, and it ends only when every
\* candidate has been processed.
C6_SweepProcessesAll ==
    /\ [][W_Reap =>
            LET c == Head(wd_stuck)
                done == Last(wd_sweep')
                reaped == [c EXCEPT !.status = "failed", !.completed_at = <<now>>,
                                    !.errors = Append(c.errors, WatchdogMsg),
                                    !.last_heartbeat = now]
            IN /\ done[1] = c.job_id
               /\ wd_stuck' = Tail(wd_stuck)
               /\ (done[2] => store' = RedisSet(store, reaped))
               /\ (~done[2] => store' = store)
               /\ (wd_pc' = "idle" <=> wd_stuck' = <<>>)]_vars
    /\ [](wd_pc = "idle" => {wd_sweep[i][1] : i \in 1..Len(wd_sweep)} = wd_found)

C6_Witness ==
    /\ wd_pc = "idle"
    /\ Len(wd_sweep) = 2
    /\ ~wd_sweep[1][2] /\ wd_sweep[2][2]
    /\ store[wd_sweep[1][1]].status = "pending"
    /\ store[wd_sweep[2][1]].status = "failed"
    /\ Last(store[wd_sweep[2][1]].errors) = WatchdogMsg

\* The outcome the claim gives for an exception of the given kind: status
\* failed and one message appended, the soft-limit text or an 'Ingestion failed:' text.
Handled(id, kind) ==
    /\ job'[id].status = "failed"
    /\ Len(job'[id].errors) = Len(job[id].errors) + 1
    /\ IsPrefix(job[id].errors, job'[id].errors)
    /\ IF kind = "SoftTimeLimitExceeded"
       THEN Last(job'[id].errors) = Msg("Ingestion task exceeded soft time limit.", "")
       ELSE Last(job'[id].errors)[1] = "Ingestion failed: "

C8_TerminalHasCompletedAt ==
    \A id \in DOMAIN store :
        store[id].status \in Terminal => store[id].completed_at # None

\* C9: a persisted job whose status is failed has a non-empty errors list.
C9_FailedHasErrors ==
    \A id \in DOMAIN store :
        store[id].status = "failed" => store[id].errors # <<>>

C9_Witness ==
    \E id \in DOMAIN store :
        /\ store[id].status = "failed"
        /\ Len(store[id].errors) = 2
        /\ store[id].errors[1] = WatchdogMsg
        /\ store[id].errors[2][1] = "Ingestion failed: "

\* C10: the errors list of each persisted record has the errors list of the
\* previously persisted record of the job as a prefix.
C10_ErrorsAppendOnly ==
    [][\A id \in DOMAIN store : IsPrefix(store[id].errors, store'[id].errors)]_vars

AllSkippedMsg ==
    Msg("Ingestion failed: ", "All specified URLs were skipped due to existing locks or no URLs to crawl.")

\* C11: a seed URL whose lock is held is left out of crawl_urls, the loop moves
\* on to the next seed (no second attempt) and errors is unchanged by the skip
\* itself; when the loop ends with no lock acquired the run goes to its end
\* without a crawl and the job is failed with the all-URLs-skipped error, which
\* the final write persists.
C11_SkippedSeeds ==
    [][\A id \in JobIds :
          /\ P_Lock(id) =>
                LET seeds == request[id].seed_urls
                    i == local[id].seed_idx
                    url == seeds[i]
                    held == LockLive(locks[url], now)
                    none == i = Len(seeds) /\ local[id].crawl_urls = <<>> /\ held
                IN /\ held => locks' = locks
                   /\ held /\ ~none =>
                         /\ local'[id].crawl_urls = local[id].crawl_urls
                         /\ job'[id] = job[id]
                         /\ (i < Len(seeds) => pc'[id] = "locks" /\ local'[id].seed_idx = i + 1)
                         /\ (i = Len(seeds) => pc'[id] = "crawl")
                   /\ none =>
                         /\ pc'[id] = "finally"
                         /\ job'[id].status = "failed"
                         /\ job'[id].errors = Append(job[id].errors, AllSkippedMsg)
                   /\ pc'[id] = "crawl" => local'[id].crawl_urls # <<>>
          /\ (P_Finally(id) /\ exc[id] = <<"AllSkipped", "try">>) =>
                /\ "processing" \notin Range(persisted'[id])
                /\ job'[id].status = "failed"
                /\ (exc'[id] = exc[id] =>
                       /\ store'[id].status = "failed"
                       /\ Last(store'[id].errors) = AllSkippedMsg)]_vars

C11_Witness ==
    \E id \in JobIds :
        /\ pc[id] = "raised"
        /\ exc[id] = <<"AllSkipped", "try">>
        /\ Len(request[id].seed_urls) = 2
        /\ store[id].status = "failed"
        /\ store[id].errors = <<AllSkippedMsg>>
        /\ persisted[id] = <<"pending", "crawling", "failed">>

\* C12: a crawl lock is held only while the job that acquired it is acquiring
\* its locks or crawling; once that job has finished crawling or is completed
\* or failed, the lock is free for another job.
C12_LockOnlyDuringCrawl ==
    \A u \in Urls :
        LockLive(locks[u], now) => pc[locks[u][2]] \in {"locks", "crawl"}

\* The pages within k links of the pages S in the link graph.
RECURSIVE Within(_, _, _)
Within(links, S, k) ==
    IF k = 0 THEN S
    ELSE LET W == Within(links, S, k - 1) IN W \cup UNION {links[u] : u \in W}

Distinct(seq) == \A i, j \in 1..Len(seq) : i # j => seq[i] # seq[j]

\* C13: crawl never holds more than max_pages documents, and no fetch attempt
\* is made once max_pages documents have been collected.
C13_AtMostMaxPages ==
    /\ [](Len(cr.crawled_documents) <= cr.max_pages)
    /\ [](cr.pc \in {"fetch", "handle"} /\ cr.html # "html"
            => Len(cr.crawled_documents) < cr.max_pages)
    /\ [][C_Attempt => Len(cr.crawled_documents) < cr.max_pages]_vars

C13_Witness ==
    /\ cr.pc = "done"
    /\ cr.max_pages = 2
    /\ Len(cr.crawled_documents) = cr.max_pages
    /\ cr.gets > 1
    /\ cr.urls_to_visit = <<(<<"c", 1>>)>>
    /\ Len(cr.fetches) = 2

\* C14: every URL handed to _fetch_url has a recorded depth <= max_depth and is
\* within max_depth links of a seed; links are extracted only from a page whose
\* depth is < max_depth and are enqueued at depth + 1, so every frontier entry
\* and every returned document is within max_depth too.
C14_DepthBound ==
    /\ [](\A i \in 1..Len(cr.fetches) :
            /\ cr.fetches[i][2] <= cr.max_depth
            /\ cr.fetches[i][1] \in Within(cr.links, Range(cr.seed_urls), cr.fetches[i][2]))
    /\ [](\A i \in 1..Len(cr.urls_to_visit) : cr.urls_to_visit[i][2] <= cr.max_depth)
    /\ [](Range(cr.crawled_documents) \subseteq Within(cr.links, Range(cr.seed_urls), cr.max_depth))
    /\ [][C_Handle /\ cr'.urls_to_visit # cr.urls_to_visit =>
            /\ cr.current[2] < cr.max_depth
            /\ \A i \in (Len(cr.urls_to_visit) + 1)..Len(cr'.urls_to_visit) :
                   cr'.urls_to_visit[i][2] = cr.current[2] + 1]_vars

C14_Witness ==
    /\ cr.pc = "done"
    /\ cr.seed_urls = <<"a">>
    /\ cr.links = [u \in Pages |-> IF u = "a" THEN {"b"} ELSE IF u = "b" THEN {"c"} ELSE {}]
    /\ cr.max_depth = 1
    /\ cr.max_pages = 3
    /\ cr.crawled_documents = <<"a", "b">>
    /\ cr.fetches = <<(<<"a", 0>>), <<"b", 1>>>>
    /\ cr.urls_to_visit = <<>>

\* C15: _fetch_url is called at most once per URL in one crawl, the returned
\* documents have pairwise distinct URLs, and a URL is in the frontier twice
\* only as a seed repeated in the seed list (never a discovered URL).
C15_NoRefetch ==
    /\ Distinct([i \in 1..Len(cr.fetches) |-> cr.fetches[i][1]])
    /\ Distinct(cr.crawled_documents)
    /\ \A i, j \in 1..Len(cr.urls_to_visit) :
          i # j /\ cr.urls_to_visit[i][1] = cr.urls_to_visit[j][1]
            => cr.urls_to_visit[i][2] = 0 /\ cr.urls_to_visit[j][2] = 0

C15_Witness ==
    /\ cr.pc = "done"
    /\ cr.seed_urls = <<"a", "a">>
    /\ cr.links = [u \in Pages |-> Pages \ {u}]
    /\ cr.max_depth = 2
    /\ cr.max_pages = 3
    /\ cr.dropped = {"b"}
    /\ cr.crawled_documents = <<"a", "c">>
    /\ Len(cr.fetches) = 3

\* C16: every attempt of _fetch_url is one client.get; a failed attempt with
\* retries left is followed by a sleep of 2^attempt seconds; when all
\* max_retries + 1 attempts failed the call returns nothing without a last
\* sleep; a response ends the call at once; and crawl drops a URL without
\* content (no document, no new frontier entry) and goes back to its loop.
C16_FetchRetries ==
    [][/\ C_Attempt =>
            /\ cr'.gets = cr.gets + 1
            /\ cr'.gets <= cr.max_retries + 1
            /\ (cr'.pc = "handle" /\ cr'.html = "none" =>
                   /\ cr'.gets = cr.max_retries + 1
                   /\ cr'.sleeps = [i \in 1..cr.max_retries |-> 2 ^ (i - 1)])
            /\ (cr'.html # "none" => cr'.pc = "handle" /\ cr'.sleeps = cr.sleeps)
            /\ (cr'.pc = "fetch" =>
                   /\ cr.attempt < cr.max_retries
                   /\ cr'.sleeps = Append(cr.sleeps, 2 ^ cr.attempt))
       /\ (C_Handle /\ cr.html # "html") =>
            /\ cr'.crawled_documents = cr.crawled_documents
            /\ cr'.urls_to_visit = cr.urls_to_visit
            /\ cr'.pc = "loop"]_vars

C16_Witness ==
    /\ cr.pc = "handle"
    /\ cr.html = "none"
    /\ cr.max_retries = CRAWLER_MAX_RETRIES
    /\ cr.gets = CRAWLER_MAX_RETRIES + 1
    /\ cr.sleeps = <<1, 2, 4>>
    /\ cr.dropped # {}
    /\ cr.crawled_documents # <<>>

NoDocumentsMsg == Msg("Ingestion failed: ", "No documents were fetched.")
EmbeddingFailedMsg == Msg("Ingestion failed: ", "Embedding generation failed.")

\* C17: when crawl returns no document the run raises at once: the job is
\* failed with the no-documents error, nothing is written or indexed by that
\* step, the run goes to its final write, which persists failed; processing,
\* embedding and indexing are never persisted and the job's index stays empty.
C17_NoDocumentsFails ==
    /\ [][\A id \in JobIds :
            /\ (P_Crawl(id) /\ job'[id].pages_fetched = 0) =>
                  /\ exc'[id] = <<"NoDocuments", "try">>
                  /\ pc'[id] = "finally"
                  /\ job'[id].status = "failed"
                  /\ job'[id].errors = Append(job[id].errors, NoDocumentsMsg)
                  /\ store' = store /\ index' = index
            /\ (P_Finally(id) /\ exc[id] = <<"NoDocuments", "try">> /\ exc'[id] = exc[id]) =>
                  /\ store'[id].status = "failed"
                  /\ Last(store'[id].errors) = NoDocumentsMsg]_vars
    /\ [](\A id \in JobIds :
            exc[id] = <<"NoDocuments", "try">> =>
              /\ pc[id] \in {"finally", "raised"}
              /\ Range(persisted[id]) \cap {"processing", "embedding", "indexing", "completed"} = {}
              /\ index[id] = NoIndex)

C17_Witness ==
    \E id \in JobIds :
        /\ pc[id] = "raised"
        /\ exc[id] = <<"NoDocuments", "try">>
        /\ store[id].status = "failed"
        /\ store[id].errors = <<NoDocumentsMsg>>
        /\ persisted[id] = <<"pending", "crawling", "failed">>
        /\ index[id] = NoIndex

\* C18: when embed_documents returned only failure placeholders (empty vectors
\* or zero vectors) for the chunk texts, the run ends failed and not completed,
\* with the error 'Embedding generation failed' (unless saving the index is what
\* failed).
C18_EmbedFailureFailsJob ==
    [][\A id \in JobIds :
          (P_Index(id) /\ local[id].embeddings \in {"zero_vectors", "empty_vectors"}) =>
             /\ job'[id].status = "failed"
             /\ (exc'[id][1] # "SaveFailed" => Last(job'[id].errors) = EmbeddingFailedMsg)]_vars

\* C19: after add_documents has returned, a count of zero for a non-empty chunk
\* list makes the job failed with the no-chunks-indexed error, and any other
\* count makes it completed with pages_indexed = pages_fetched = the number of
\* crawled documents and total_chunks_indexed = the count the index returned
\* (the vectors it added); the final write persists that record.
C19_IndexingOutcome ==
    /\ [][\A id \in JobIds :
            /\ (P_Index(id) /\ exc'[id] = exc[id]) =>
                  LET count == index'[id].resident - index[id].resident
                  IN IF count = 0 /\ local[id].chunks > 0
                     THEN /\ job'[id].status = "failed"
                          /\ Last(job'[id].errors) = NoChunksIndexedMsg
                     ELSE /\ job'[id].status = "completed"
                          /\ job'[id].pages_indexed = job'[id].pages_fetched
                          /\ job'[id].pages_fetched = local[id].docs
                          /\ job'[id].total_chunks_indexed = count
                          /\ index'[id].saved = index'[id].resident
                          /\ job'[id].errors = job[id].errors
            /\ (P_Finally(id) /\ job[id].status = "completed") =>
                  /\ pc'[id] = "done"
                  /\ job'[id].status = "completed"
                  /\ (exc'[id] = exc[id] => store'[id] = job'[id])]_vars
    /\ [](\A id \in JobIds, chunks \in ChunkCounts \ {0} :
            pc[id] = "index" =>
              LET j == AfterIndexing(job[id], 0, chunks)
              IN /\ j.status = "failed"
                 /\ j.errors = Append(job[id].errors, NoChunksIndexedMsg))

C19_Witness ==
    \E id \in JobIds :
        /\ pc[id] = "done"
        /\ store[id].status = "completed"
        /\ store[id].pages_fetched = 2
        /\ store[id].pages_indexed = 2
        /\ store[id].total_chunks_indexed = 2
        /\ index[id] = [resident |-> 2, saved |-> 2]

\* C20: the way a run ends does not depend on the final write: whether
\* update_job returned or raised in the finally block, the run of a completed
\* job returns and the run of a failed job raises the ValueError of line 171;
\* the exception of the write itself is never what ends the run.
C20_FinalWriteNotPropagated ==
    [][\A id \in JobIds :
          P_Finally(id) =>
             /\ (job[id].status = "completed" => pc'[id] = "done")
             /\ (job[id].status = "failed" => pc'[id] = "raised")
             /\ job[id].status \in Terminal
             /\ (exc'[id] # exc[id] => exc'[id] = <<"RedisError", "finally">> /\ store' = store)]_vars

C20_Witness ==
    \E id \in JobIds :
        /\ pc[id] = "done"
        /\ exc[id] = <<"RedisError", "finally">>
        /\ job[id].status = "completed"
        /\ store[id].status = "indexing"

\* C21: every persisted record has last_heartbeat >= started_at (the clock
\* never goes backwards).
C21_HeartbeatAfterStart ==
    /\ \A id \in DOMAIN store : store[id].last_heartbeat >= store[id].started_at
    /\ \A id \in DOMAIN store : store[id].last_heartbeat <= now

C21_Witness ==
    \E id \in DOMAIN store :
        /\ store[id].status = "completed"
        /\ store[id].started_at > 0
        /\ store[id].last_heartbeat > store[id].started_at

\* The job ids the ingest operation has returned to a client.
Returned(id) == pc[id] \notin {"none", "created", "rejected"}

\* C22: ingest stores the pending record before it enqueues the task and
\* answers with the job id while the task is still waiting; a task that starts
\* finds its record, and a status query for a returned job id is not answered
\* not-found.
C22_RecordBeforeTask ==
    /\ [](\A id \in queue : id \in DOMAIN store)
    /\ [](\A id \in JobIds : Returned(id) => id \in DOMAIN store)
    /\ [][\A id \in JobIds :
            /\ I_Enqueue(id) =>
                  /\ id \in DOMAIN store /\ store[id].status = "pending"
                  /\ id \notin queue
                  /\ (api'.ingest.code = 202 => api'.ingest.job_id = id /\ id \in queue')
            /\ P_Load(id) => pc'[id] = "loaded" /\ job'[id] = store[id]
            /\ (get_job_status(id) /\ Returned(id)) => api'.status.code # 404]_vars

C22_Witness ==
    /\ api.ingest = [code |-> 202, job_id |-> 2]
    /\ pc = <<"loaded", "queued">>
    /\ api.status = [code |-> 200, job_id |-> 2, status |-> "pending"]

\* The requests the ingest operation is specified to accept.
Acceptable(r) ==
    /\ r.seed_urls # <<>>
    /\ r.domain_allowlist # <<>>
    /\ \A i \in 1..Len(r.seed_urls) : IsHttpUrl(r.seed_urls[i])
    /\ r.max_pages <= MAX_PAGES_LIMIT
    /\ r.max_depth <= MAX_DEPTH_LIMIT

\* C23: no job record exists and no task is enqueued for a request with an
\* empty seed list, an empty allowlist, a seed that is not http(s), max_pages
\* above 1000 or max_depth above 5.
C23_InvalidRejected ==
    /\ \A id \in DOMAIN store : Acceptable(request[id])
    /\ \A id \in queue : Acceptable(request[id])

\* C24: ask answers 404 for a job id without record and 409 with the current
\* status for a job whose status is not completed (unless reading the record
\* itself failed), and invokes retrieval and generation only when the record it
\* read has status completed.
C24_AskOnlyCompleted ==
    [][\A id \in JobIds :
          ask_question(id) =>
             LET r == api'.ask
                 read == ~(r.code = 500 /\ ~r.retrieved)
             IN /\ r.job_id = id
                /\ (read /\ id \notin DOMAIN store => r.code = 404)
                /\ (read /\ id \in DOMAIN store /\ store[id].status # "completed" =>
                       r.code = 409 /\ r.status = store[id].status)
                /\ (r.retrieved \/ r.generated =>
                       id \in DOMAIN store /\ store[id].status = "completed")
                /\ (read /\ id \in DOMAIN store /\ store[id].status = "completed" =>
                       r.retrieved /\ r.generated)]_vars

C24_Witness ==
    /\ api.ask.code = 409
    /\ api.ask.status = "crawling"
    /\ api.ask.job_id = FirstJob
    /\ store[FirstJob].status = "failed"

\* A step that is a call of add_documents for job_id, and the chunks it was given.
AddCalled(job_id) ==
    /\ vs.pc = "idle" /\ vs'.calls = vs.calls + 1
    /\ IF vs'.pc = "write_index" THEN vs'.call.job_id = job_id ELSE vs'.result.job_id = job_id
AddSaving == vs.pc = "idle" /\ vs'.pc = "write_index"

\* C25: the first add_documents of a job makes an index of the dimension of the
\* embeddings of that call; an add_documents for a job that has an index, with
\* embeddings (all of one length) of another length, raises the dimension
\* error and leaves the resident state and the files of every job as they were.
C25_DimensionFixed ==
    [][\A job_id \in JobIds :
          AddCalled(job_id) =>
              /\ AddSaving /\ ~vs.resident[job_id].present
                    => vs'.resident[job_id].d = Len(vs'.call.chunks[1].embedding)
              /\ LET chunks == IF AddSaving THEN vs'.call.chunks ELSE vs'.result.chunks
                 IN /\ chunks # <<>>
                    /\ SameDimension(chunks)
                    /\ vs.resident[job_id].present
                    /\ Len(chunks[1].embedding) # vs.resident[job_id].d
                    => /\ ~AddSaving
                       /\ vs'.result.raised = "DimensionMismatch"
                       /\ vs'.resident = vs.resident
                       /\ vs'.disk = vs.disk]_vars

C25_Witness ==
    /\ vs.result.op = "add"
    /\ vs.result.raised = "DimensionMismatch"
    /\ Len(vs.result.chunks[1].embedding) = 2
    /\ vs.resident[vs.result.job_id].present
    /\ vs.resident[vs.result.job_id].d = 1
    /\ vs.resident[vs.result.job_id].vectors # <<>>
    /\ Complete(vs.disk[vs.result.job_id])

\* The vectors, the id map and the metadata of a job agree.
Consistent(r) ==
    /\ Len(r.vectors) = Len(r.chunk_id_map)
    /\ \A i \in 1..Len(r.chunk_id_map) : r.chunk_id_map[i] \in DOMAIN r.chunk_metadata

\* C26: a call of add_documents that passes validation takes a job's state that
\* is consistent (or absent) to a consistent one with as many vectors as ids, the
\* ids of the call appended in order after those already there, which keep their
\* ordinals; the writes of the files that follow leave the resident state alone.
C26_AppendOnly ==
    [][/\ \A job_id \in JobIds :
            AddCalled(job_id) /\ AddSaving =>
                LET old == IF vs.resident[job_id].present THEN vs.resident[job_id]
                           ELSE NewResident(Len(vs'.call.chunks[1].embedding))
                    new == vs'.resident[job_id]
                IN Consistent(old) =>
                      /\ Consistent(new)
                      /\ new.chunk_id_map =
                            old.chunk_id_map
                            \o [i \in 1..Len(vs'.call.chunks) |-> vs'.call.chunks[i].chunk_id]
                      /\ Len(new.vectors) = Len(old.vectors) + Len(vs'.call.chunks)
       /\ vs.pc \in {"write_index", "write_metadata", "write_id_map"} /\ vs'.pc # "down"
            => vs'.resident = vs.resident]_vars

C26_Witness ==
    /\ vs.result.op = "add"
    /\ vs.result.raised = "none"
    /\ vs.result.count = 1
    /\ vs.resident[vs.result.job_id].chunk_id_map = <<"c1", "c2", "c3">>
    /\ Consistent(vs.resident[vs.result.job_id])

\* What a later search or get_indexed_chunk can see of a job's resident state.
NumVectors(r) == IF r.present THEN Len(r.vectors) ELSE 0
SavedOn(f, r) ==
    /\ f.index = File([d |-> r.d, vectors |-> r.vectors])
    /\ f.metadata = File(r.chunk_metadata)
    /\ f.id_map = File(r.chunk_id_map)

\* The half of C27 about a returned count: the chunks of the call are in the
\* resident index, metadata and id map, and the three files hold that state.
AddReturnedComplete ==
    [][vs.pc = "write_id_map" /\ vs'.pc = "idle" /\ vs'.result.raised = "none" =>
          LET job_id == vs'.result.job_id
              r == vs'.resident[job_id]
              n == Len(vs'.result.chunks)
          IN /\ vs'.result.count = n
             /\ NumVectors(r) = NumVectors(vs.call.before) + n
             /\ \A i \in 1..n :
                   /\ r.vectors[NumVectors(vs.call.before) + i] = vs'.result.chunks[i].embedding
                   /\ r.chunk_id_map[NumVectors(vs.call.before) + i] = vs'.result.chunks[i].chunk_id
                   /\ get_indexed_chunk(r, vs'.result.chunks[i].chunk_id) = Some(vs'.result.chunks[i])
             /\ SavedOn(vs'.disk[job_id], r)]_vars

\* C27: add_documents is all or nothing: a returned count means the chunks of
\* the call are resident and the three files written, and a call that fails
\* after validation (a write of _save_index raising) leaves the job with the
\* vectors and the chunks it had before the call.
C27_AllOrNothing ==
    [][/\ vs.pc = "write_id_map" /\ vs'.pc = "idle" /\ vs'.result.raised = "none" =>
            /\ vs'.result.count = Len(vs'.result.chunks)
            /\ SavedOn(vs'.disk[vs'.result.job_id], vs'.resident[vs'.result.job_id])
       /\ vs.pc \in {"write_index", "write_metadata", "write_id_map"}
          /\ vs'.pc = "idle" /\ vs'.result.raised = "SaveFailed" =>
            LET job_id == vs'.result.job_id
            IN /\ NumVectors(vs'.resident[job_id]) = NumVectors(vs.call.before)
               /\ \A i \in 1..Len(vs'.result.chunks) :
                     get_indexed_chunk(vs'.resident[job_id], vs'.result.chunks[i].chunk_id)
                       = get_indexed_chunk(vs.call.before, vs'.result.chunks[i].chunk_id)]_vars

\* C28: when the process ended between the write of the index file and the
\* write of the metadata file or of the id-map file, the load of the next
\* process makes the job resident only with as many vectors as ids in its id
\* map and metadata for every id of the map.
C28_TornSaveDiscarded ==
    [][/\ vs.pc = "down" /\ vs'.pc = "idle"
       /\ vs.result.at \in {"write_metadata", "write_id_map"}
       => LET r == vs'.resident[vs.result.job_id]
          IN r.present => Consistent(r)]_vars

C30_SearchResults ==
    vs.result.op = "search" =>
        LET r == vs.resident[vs.result.job_id]
        IN /\ Len(vs.result.results) <= vs.result.k
           /\ Len(vs.result.results) <= NumVectors(r)
           /\ \A i \in 1..Len(vs.result.results) :
                 /\ vs.result.results[i][2].owner = vs.result.job_id
                 /\ get_indexed_chunk(r, vs.result.results[i][2].chunk_id)
                      = Some(vs.result.results[i][2])
           /\ vs.result.raised # "none" => r.present /\ Len(vs.result.q) # r.d
           /\ ~r.present => vs.result.results = <<>>

C30_Witness ==
    /\ vs.result.op = "search"
    /\ vs.result.k = 1
    /\ Len(vs.result.results) = 1
    /\ NumVectors(vs.resident[vs.result.job_id]) = 2
    /\ \E other \in JobIds \ {vs.result.job_id} : NumVectors(vs.resident[other]) > 0

\* A search over an index with more vectors than ids skips the ordinals
\* beyond the id map and returns the rest.
C30_SkipWitness ==
    /\ vs.result.op = "search"
    /\ vs.result.raised = "none"
    /\ vs.result.k = RETRIEVER_TOP_K
    /\ Len(vs.result.results) = 1
    /\ NumVectors(vs.resident[vs.result.job_id]) = 2

Persisted(job_id) ==
    /\ ~vs.resident[job_id].present
    /\ Complete(vs.disk[job_id]) /\ Readable(vs.disk[job_id])

\* The half of C32 about search: a search of a job that is not resident and has
\* files makes the job resident from the files and answers from them.
SearchLoadsPersisted ==
    [][\A job_id \in JobIds :
          /\ vs.pc = "idle" /\ vs'.result.op = "search" /\ vs'.result.job_id = job_id
          /\ Persisted(job_id)
          => /\ SavedOn(vs.disk[job_id], vs'.resident[job_id])
             /\ [raised |-> vs'.result.raised, results |-> vs'.result.results]
                  \in SearchOutcomes(vs'.resident[job_id], vs'.result.q, vs'.result.k)]_vars

\* C32: a search or an add_documents of a job that is not resident and has files
\* loads the files first: the search answers from the persisted chunks and
\* add_documents appends to them, the persisted ids keeping their ordinals.
C32_LazyReload ==
    [][\A job_id \in JobIds :
          /\ /\ vs.pc = "idle" /\ vs'.result.op = "search" /\ vs'.result.job_id = job_id
             /\ Persisted(job_id)
             => SavedOn(vs.disk[job_id], vs'.resident[job_id])
          /\ AddCalled(job_id) /\ AddSaving /\ Persisted(job_id)
             => /\ IsPrefix(vs.disk[job_id].id_map[1].data, vs'.resident[job_id].chunk_id_map)
                /\ Len(vs'.resident[job_id].vectors)
                     = Len(vs.disk[job_id].index[1].data.vectors) + Len(vs'.call.chunks)]_vars

\* C33: while a thread is in add_documents between the insertion of the vectors
\* and the end of _save_index, no other thread is inside search or
\* get_indexed_chunk, and no two threads are inside add_documents; what a
\* search or a get_indexed_chunk finds is an index with as many vectors as the
\* id map has entries.
C33_MutualExclusion ==
    /\ \A a, o \in Threads :
          a # o /\ vs.th[a].pc \in {"store_chunk", "save", "release"}
                /\ vs.th[a].call.op = "add"
          => vs.th[o].pc \notin {"add_vectors", "store_chunk", "save", "search", "get"}
    /\ \A t \in Threads :
          vs.th[t].seen.op \in {"search", "get"} => vs.th[t].seen.ntotal = vs.th[t].seen.ids

C33_Witness ==
    \E a, o \in Threads :
        /\ vs.th[a].pc = "store_chunk" /\ vs.th[a].i = 2
        /\ vs.th[o].pc = "acquire" /\ vs.th[o].call.op = "search"
        /\ Len(vs.resident.vectors) = 2 /\ Len(vs.resident.chunk_id_map) = 1

\* The candidate sets a scan of the store can return at time t, over the orders
\* in which the keys can come.
ScanResults(st, t) ==
    {LET found == ScanLoop(st, keys, t, WATCHDOG_THRESHOLD_SECONDS)
     IN {found[i].job_id : i \in 1..Len(found)} : keys \in KeyOrders(st)}

\* C34: the stuck-jobs listing and the scan of the watchdog leave every
\* persisted job record as it is, and a scan made right after one that returned,
\* at the same time and on the same records, returns the same set of jobs.
C34_ScanReadOnly ==
    [][/\ get_stuck_jobs =>
            /\ store' = store /\ persisted' = persisted /\ now' = now
            /\ stuck_listing'.code = 200 => ScanResults(store', now') = {stuck_listing'.jobs}
       /\ W_Scan =>
            /\ store' = store /\ persisted' = persisted /\ now' = now
            /\ wd_pc' = "reaping" => ScanResults(store', now') = {wd_found'}]_vars

C34_Witness ==
    /\ stuck_listing.code = 200
    /\ Cardinality(stuck_listing.jobs) = 2
    /\ wd_pc = "reaping" /\ wd_sweep = <<>>
    /\ wd_found = stuck_listing.jobs
    /\ \A id \in stuck_listing.jobs : store[id].status = "pending"

\* The order of the confidence levels, and B being evidence at least as good
\* as A: at least as many chunks, the i-th nearest of B at least as near as
\* the i-th nearest of A.
Level(confidence) ==
    CASE confidence = "low" -> 1 [] confidence = "medium" -> 2 [] confidence = "high" -> 3
AtLeastAsGood(b, a) ==
    /\ Len(b) >= Len(a)
    /\ \A i \in 1..Len(a) : b[i] <= a[i]

\* C35: when the chunks retrieved for B are at least as many and at least as
\* near to the query as those retrieved for A, the confidence of B is not lower
\* than the confidence of A.
C35_ConfidenceMonotonic ==
    /\ api.confidence.A # None /\ api.confidence.B # None
    /\ AtLeastAsGood(api.retrieved.B, api.retrieved.A)
    => Level(api.confidence.B[1]) >= Level(api.confidence.A[1])

\* C36: every chunk chunk_text returns is at most chunk_size + chunk_overlap long.
C36_ChunkLength ==
    ct.pc = "done" =>
        \A i \in 1..Len(ct.chunks) : Len(ct.chunks[i]) <= ct.chunk_size + ct.chunk_overlap

C38_CompletedAfterIndexSaved ==
    /\ \A id \in DOMAIN store :
          store[id].status = "completed" =>
             /\ pc[id] = "done"
             /\ index[id].saved >= 1
             /\ index[id].saved = index[id].resident
             /\ store[id].total_chunks_indexed = index[id].saved
    /\ api.ask.code # 0 /\ api.ask.retrieved => index[api.ask.job_id].saved >= 1

C38_Witness ==
    /\ api.ask.code = 200
    /\ api.ask.job_id = FirstJob
    /\ store[FirstJob].status = "completed"
    /\ index[FirstJob].saved = 2

\* C39: in every persisted state of a job, pages_fetched is at most the
\* max_pages of its request; pages_indexed and total_chunks_indexed are 0
\* unless the status is completed; and a completed job has pages_fetched >= 1,
\* pages_indexed = pages_fetched and total_chunks_indexed >= 1.
C39_PersistedCounters ==
    \A id \in DOMAIN store :
        LET j == store[id]
        IN /\ j.pages_fetched <= request[id].max_pages
           /\ j.status # "completed" =>
                  j.pages_indexed = 0 /\ j.total_chunks_indexed = 0
           /\ j.status = "completed" =>
                  /\ j.pages_fetched >= 1
                  /\ j.pages_indexed = j.pages_fetched
                  /\ j.total_chunks_indexed >= 1

C39_Witness ==
    /\ FirstJob \in DOMAIN store
    /\ store[FirstJob].status = "completed"
    /\ request[FirstJob].max_pages = 2
    /\ store[FirstJob].pages_fetched = 1
    /\ store[FirstJob].pages_indexed = 1
    /\ store[FirstJob].total_chunks_indexed = 2

\* The URLs of the frontier.
FrontierUrls(c) == {c.urls_to_visit[i][1] : i \in 1..Len(c.urls_to_visit)}

\* C40: crawl terminates for every link graph, seed list, max_pages >= 1,
\* max_depth >= 0 and pattern of fetch outcomes; every loop iteration removes
\* one frontier entry, a URL once visited is never enqueued again, and the loop
\* ends exactly when the frontier is empty or max_pages documents are collected.
C40_CrawlTerminates ==
    /\ <>(cr.pc = "done")
    /\ [][/\ C_Loop =>
               IF cr.urls_to_visit = <<>> \/ Len(cr.crawled_documents) >= cr.max_pages
               THEN cr'.pc = "done" /\ cr'.urls_to_visit = cr.urls_to_visit
               ELSE cr'.pc # "done" /\ cr'.urls_to_visit = Tail(cr.urls_to_visit)
           /\ C_Handle =>
               /\ cr'.pc = "loop"
               /\ SubSeq(cr'.urls_to_visit, 1, Len(cr.urls_to_visit)) = cr.urls_to_visit
               /\ \A i \in Len(cr.urls_to_visit) + 1 .. Len(cr'.urls_to_visit) :
                      cr'.urls_to_visit[i][1] \notin cr.visited_urls
           /\ cr.visited_urls \subseteq cr'.visited_urls]_vars

C40_Witness ==
    /\ cr.pc = "done"
    /\ cr.max_pages = 2
    /\ Len(cr.crawled_documents) = 2
    /\ cr.seed_urls = <<"a", "a">>
    /\ cr.urls_to_visit # <<>>
    /\ FrontierUrls(cr) \cap cr.visited_urls = {}

====
